---- MODULE Spec2Model ----
(***************************************************************************)
(* swarmgate: a per-tenant authorizing proxy in front of the Docker Swarm  *)
(* engine API.  The model follows swarmgate/routes.ts (setupRoutes) and    *)
(* swarmgate/app.ts.                                                       *)
(*                                                                         *)
(* Strings are sequences of atoms, so that startsWith, split('/') and the  *)
(* path matching of the router are computed, not assumed.  A resource name *)
(* is a sequence of letters; a route word such as "services" is the        *)
(* one-atom sequence <<"services">>.  An optional object is <<>> when it   *)
(* is absent and <<x>> when it is present; an absent string is Missing.    *)
(***************************************************************************)
EXTENDS Integers, Sequences, FiniteSets, TLC

VARIABLES
    cfg,      \* proxy instance -> its startup configuration (read once)
    engine,   \* the resources held by the engine
    pc,       \* "idle": no request in flight; "done": the request was answered;
              \* "streaming": the engine's response is being copied to the client;
              \* "writing": the handler is about to issue its engine write
    req,      \* the request being served
    calls,    \* the engine requests issued while serving req, in order
    resp,     \* the response written to the client
    origin,   \* history: <<kind, id>> -> the proxy whose create reached the engine
    served,   \* history: the number of requests served so far
    down,     \* the proxies whose process has ended on an uncaught exception
    failing,  \* the kinds of resource whose inspect the engine answers with an error
    stream,   \* the proxied exchange in flight: engine side, client side, bytes
    race,     \* the service updates in flight at the same time
    gap,      \* the engine write a handler has decided on and not yet issued
    www       \* the launcher: its sockets registry, its timers, its server

vars == <<cfg, engine, pc, req, calls, resp, origin, served, down, failing, stream, race, gap,
          www>>

----------------------------------------------------------------------------
(* Bounds *)

\* waitForSocketsToClose(10)
Countdown == 10

\* The server accepts at most this many connections.
MaxSockets == 3

\* At most this many signals reach the process.
MaxSignals == 2

\* The engine holds at most this many resources of one kind.
MaxPerKind == 3

\* The executions explored serve at most this many requests.
MaxRequests == 2

----------------------------------------------------------------------------
(* Strings *)

W(x) == <<x>>

\* JavaScript's undefined, as it prints in a template string.
Missing == <<"undefined">>

\* String.prototype.startsWith
StartsWith(s, p) ==
    /\ Len(p) <= Len(s)
    /\ SubSeq(s, 1, Len(p)) = p

\* JavaScript truthiness of a string value: undefined and '' are falsy.
Truthy(s) == s # Missing /\ s # <<>>

\* a || b on strings
OrElse(a, b) == IF Truthy(a) THEN a ELSE b

A == <<"a">>
B == <<"b">>
AB == <<"a", "b">>

Kinds == {"service", "network", "secret", "config", "volume"}

----------------------------------------------------------------------------
(* Labels: a function from label keys to values; an absent Labels object   *)
(* and an empty one are both the empty function.                           *)

tenantLabel == "com.github.neuroforgede.swarmgate.tenant"

NoLabels == <<>>

HasKey(labels, k) == k \in DOMAIN labels

\* A faulty merge in which a key the client set keeps the client's value:
\* { [k]: v, ...labels }
SpreadClientWins(labels, k, v) ==
    [x \in (DOMAIN labels) \cup {k} |-> IF x \in DOMAIN labels THEN labels[x] ELSE v]

\* { ...labels, [k]: v }
Spread(labels, k, v) ==
    [x \in (DOMAIN labels) \cup {k} |-> IF x = k THEN v ELSE labels[x]]

----------------------------------------------------------------------------
(* Startup configuration (routes.ts:10-20, app.ts:43-47)                   *)

KNOWN_VOLUME_TYPES == {"bind", "volume", "tmpfs", "npipe", "cluster"}

\* const namePrefix = process.env.NAME_PREFIX || tenantLabelValue
namePrefix(p) == OrElse(cfg[p].NAME_PREFIX, cfg[p].tenantLabelValue)

tenantLabelValue(p) == cfg[p].tenantLabelValue

\* A faulty name check that admits every name.
isResourceNameAllowedAlways(p, name) == TRUE

isResourceNameAllowed(p, name) == StartsWith(name, namePrefix(p))

\* A faulty check that takes every mount type for a known one.
isKnownMountTypeAny(volumeType) == TRUE

isKnownMountType(volumeType) == volumeType \in KNOWN_VOLUME_TYPES

isMountTypeAllowed(p, volumeType) == volumeType \in cfg[p].ALLOWED_VOLUME_TYPES

isVolumeDriverAllowed(p, volumeDriver) ==
    volumeDriver \in cfg[p].ALLOWED_REGULAR_VOLUME_DRIVERS

----------------------------------------------------------------------------
(* Registry credentials.  An image reference is the sequence of its        *)
(* '/'-separated parts; a registry is one part.                            *)

\* image.split('/'): fewer than two parts -> '', else the first part
getRegistryFromDockerImage(image) ==
    IF Len(image) < 2 THEN "" ELSE image[1]

\* registryAuthOverrides[registry]: <<>> when the store has no entry
getAuthForRegistry(p, registry) ==
    IF registry \in DOMAIN cfg[p].registryAuthOverrides
    THEN <<cfg[p].registryAuthOverrides[registry]>>
    ELSE <<>>

getAuthForDockerImage(p, image) ==
    LET r0 == getRegistryFromDockerImage(image)
        registry == IF r0 = "" THEN "docker.io" ELSE r0
    IN  [auth |-> getAuthForRegistry(p, registry), registry |-> registry]

\* Buffer.from(JSON.stringify({username, password, serveraddress, email}))
\*   .toString("base64url")
AuthHeader(auth) ==
    <<"base64url", auth.username, auth.password, auth.serveraddress>>

NoHeaders == <<>>

\* A header is there for req.get() when it is present and not ''.
HeaderSet(headers, h) == HasKey(headers, h) /\ headers[h] # <<>>

DropHeader(headers, h) == [x \in (DOMAIN headers) \ {h} |-> headers[x]]

stripAuthInfo(headers) ==
    LET h1 == IF HeaderSet(headers, "x-registry-config")
              THEN DropHeader(headers, "x-registry-config") ELSE headers
    IN  IF HeaderSet(h1, "x-registry-auth")
        THEN DropHeader(h1, "x-registry-auth") ELSE h1

----------------------------------------------------------------------------
(* The engine: engine[kind] maps the identifiers that exist to the         *)
(* resource; a resource is addressed by its name.                          *)

Exists(kind, id) == id \in DOMAIN engine[kind]

\* The engine answers an inspect of this kind with an error.
Fails(kind) == kind \in failing

\* What an inspect of kind/id returns: <<>> on error or not found.
Inspect(kind, id) ==
    IF Exists(kind, id) /\ ~Fails(kind)
    THEN <<[Name |-> id, Labels |-> engine[kind][id].Labels]>>
    ELSE <<>>

\* One request sent to the engine.
Call(op, kind, id, headers, body, res) ==
    [op |-> op, kind |-> kind, id |-> id, headers |-> headers,
     body |-> body, res |-> res]

InspectCall(kind, id) ==
    Call("inspect", kind, id, NoHeaders, <<>>,
         IF Exists(kind, id) /\ ~Fails(kind) THEN "ok" ELSE "error")

----------------------------------------------------------------------------
(* Ownership oracle                                                        *)

\* A faulty oracle that looks for the tenant label and not at its value.
isLabelOwnedAnyValue(p, res) == HasKey(res.Labels, tenantLabel)

\* isServiceOwned, isSecretOwned, isConfigOwned, isVolumeOwned: the labels
\* of the inspected resource carry the tenant label value of this proxy.
isLabelOwned(p, res) ==
    /\ HasKey(res.Labels, tenantLabel)
    /\ res.Labels[tenantLabel] = tenantLabelValue(p)

isServiceOwned(p, service) == isLabelOwned(p, service)

isSecretOwned(p, secret) == isLabelOwned(p, secret)

isConfigOwned(p, config) == isLabelOwned(p, config)

isVolumeOwned(p, volume) == isLabelOwned(p, volume)

\* A faulty predicate that honours the allow-list whatever the caller asks.
isNetworkOwnedAllowListed(p, network, includeAllowListed) ==
    \/ network.Name \in cfg[p].SERVICE_ALLOW_LISTED_NETWORKS
    \/ isLabelOwned(p, network)

isNetworkOwned(p, network, includeAllowListed) ==
    \/ includeAllowListed /\ network.Name \in cfg[p].SERVICE_ALLOW_LISTED_NETWORKS
    \/ isLabelOwned(p, network)

\* The predicate the oracle applies to an inspected resource of a kind.
isResourceOwned(p, kind, res) ==
    CASE kind = "service" -> isServiceOwned(p, res)
      [] kind = "network" -> isNetworkOwned(p, res, FALSE)
      [] kind = "secret"  -> isSecretOwned(p, res)
      [] kind = "config"  -> isConfigOwned(p, res)
      [] kind = "volume"  -> isVolumeOwned(p, res)

\* isOwnedService, isOwnedSecret, isOwnedConfig, isOwnedVolume:
\* inspect, false on error.
\* A faulty oracle that takes a failed inspect for an owned resource.
isOwnedFailOpen(p, kind, id) ==
    \/ Fails(kind)
    \/ LET got == Inspect(kind, id)
       IN  got # <<>> /\ isResourceOwned(p, kind, got[1])

\* A faulty oracle that answers from what the proxy remembers to have
\* created, and not from the engine.
isOwnedRemembered(p, kind, id) ==
    <<kind, id>> \in DOMAIN origin /\ origin[<<kind, id>>] = p

isOwned(p, kind, id) ==
    LET got == Inspect(kind, id)
    IN  got # <<>> /\ isResourceOwned(p, kind, got[1])

isOwnedService(p, id) == isOwned(p, "service", id)

isOwnedSecret(p, id) == isOwned(p, "secret", id)

isOwnedConfig(p, id) == isOwned(p, "config", id)

isOwnedVolume(p, id) == isOwned(p, "volume", id)

isOwnedNetwork(p, id, includeAllowListed) ==
    LET got == Inspect("network", id)
    IN  got # <<>> /\ isNetworkOwned(p, got[1], includeAllowListed)

\* inspect: resolve(false) on error, resolve(true) otherwise
doesVolumeExist(id) == Inspect("volume", id) # <<>>

----------------------------------------------------------------------------
(* Router (express.Router): the routes in registration order.  A pattern   *)
(* element is a literal word or a parameter; version says whether the      *)
(* route starts with the optional parameter /:version?, which matches any  *)
(* single path segment.                                                    *)

PathParams == {":id", ":name"}

Rt(handler, method, version, pat) ==
    [handler |-> handler, method |-> method, version |-> version, pat |-> pat]

Routes == <<
    Rt("ping",           "HEAD",   FALSE, <<"_ping">>),
    Rt("ping",           "GET",    FALSE, <<"_ping">>),
    Rt("version",        "GET",    TRUE,  <<"version">>),
    Rt("nodes",          "GET",    TRUE,  <<"nodes">>),
    Rt("node",           "GET",    TRUE,  <<"nodes", ":id">>),
    Rt("info",           "GET",    TRUE,  <<"info">>),
    Rt("distribution",   "GET",    TRUE,  <<"distribution", ":name", "json">>),
    Rt("serviceCreate",  "POST",   TRUE,  <<"services", "create">>),
    Rt("serviceUpdate",  "POST",   TRUE,  <<"services", ":id", "update">>),
    Rt("serviceList",    "GET",    TRUE,  <<"services">>),
    Rt("serviceInspect", "GET",    TRUE,  <<"services", ":id">>),
    Rt("serviceDelete",  "DELETE", TRUE,  <<"services", ":id">>),
    Rt("serviceLogs",    "GET",    TRUE,  <<"services", ":id", "logs">>),
    Rt("taskList",       "GET",    TRUE,  <<"tasks">>),
    Rt("taskInspect",    "GET",    TRUE,  <<"tasks", ":id">>),
    Rt("taskLogs",       "GET",    TRUE,  <<"tasks", ":id", "logs">>),
    Rt("networkCreate",  "POST",   TRUE,  <<"networks", "create">>),
    Rt("networkList",    "GET",    TRUE,  <<"networks">>),
    Rt("networkDelete",  "DELETE", TRUE,  <<"networks", ":id">>),
    Rt("networkInspect", "GET",    TRUE,  <<"networks", ":id">>),
    Rt("secretCreate",   "POST",   TRUE,  <<"secrets", "create">>),
    Rt("secretList",     "GET",    TRUE,  <<"secrets">>),
    Rt("secretDelete",   "DELETE", TRUE,  <<"secrets", ":id">>),
    Rt("secretInspect",  "GET",    TRUE,  <<"secrets", ":id">>),
    Rt("secretUpdate",   "POST",   TRUE,  <<"secrets", ":id", "update">>),
    Rt("configCreate",   "POST",   TRUE,  <<"configs", "create">>),
    Rt("configList",     "GET",    TRUE,  <<"configs">>),
    Rt("configDelete",   "DELETE", TRUE,  <<"configs", ":id">>),
    Rt("configInspect",  "GET",    TRUE,  <<"configs", ":id">>),
    Rt("configUpdate",   "POST",   TRUE,  <<"configs", ":id", "update">>),
    Rt("volumeCreate",   "POST",   TRUE,  <<"volumes", "create">>),
    Rt("volumeList",     "GET",    TRUE,  <<"volumes">>),
    Rt("volumeDelete",   "DELETE", TRUE,  <<"volumes", ":name">>),
    Rt("volumeInspect",  "GET",    TRUE,  <<"volumes", ":name">>),
    Rt("volumeUpdate",   "PUT",    TRUE,  <<"volumes", ":name">>) >>

\* The segments match the pattern one by one.
MatchPat(pat, segs) ==
    /\ Len(segs) = Len(pat)
    /\ \A i \in 1..Len(pat) : pat[i] \in PathParams \/ segs[i] = W(pat[i])

\* The path matches the route, with or without the version segment.
RouteMatches(rt, path) ==
    \/ MatchPat(rt.pat, path)
    \/ rt.version /\ path # <<>> /\ MatchPat(rt.pat, Tail(path))

\* Route.prototype._handles_method: a route without a HEAD handler serves
\* HEAD with its GET handler.
HandlesMethod(rt, method) ==
    \/ rt.method = method
    \/ method = "HEAD" /\ rt.method = "GET"

\* The index of the first route that serves the request, 0 when none does.
Dispatch(method, path) ==
    LET hits == {i \in 1..Len(Routes) :
                    HandlesMethod(Routes[i], method) /\ RouteMatches(Routes[i], path)}
    IN  IF hits = {} THEN 0
        ELSE CHOOSE i \in hits : \A j \in hits : i <= j

HandlerOf(method, path) ==
    IF Dispatch(method, path) = 0 THEN "none"
    ELSE Routes[Dispatch(method, path)].handler

\* req.params.version: Missing when the path has no version segment.
ParamVersion(method, path) ==
    LET rt == Routes[Dispatch(method, path)]
    IN  IF Len(path) > Len(rt.pat) THEN path[1] ELSE Missing

\* req.params.id / req.params.name: the segment at the parameter's place.
ParamId(method, path) ==
    LET rt == Routes[Dispatch(method, path)]
        off == Len(path) - Len(rt.pat)
        i == CHOOSE k \in 1..Len(rt.pat) : rt.pat[k] \in PathParams
    IN  path[off + i]

----------------------------------------------------------------------------
(* What serving a request yields: the engine requests issued, the response *)
(* written, and the engine's resources afterwards.                         *)

Out(c, r, e, o) ==
    [calls |-> c, resp |-> r, engine |-> e, origin |-> o, crash |-> FALSE]

Resp(status, body) == [status |-> status, body |-> body]

Text(msg) == [type |-> "text", data |-> msg]

Json(data) == [type |-> "json", data |-> data]

\* The engine's own response, piped through.
Piped == [type |-> "piped", data |-> <<>>]

\* res.status(s).send(msg) without a change to the engine
Reply(c, status, msg) == Out(c, Resp(status, Text(msg)), engine, origin)

\* Nothing was written to the client.
NoResponse == Resp(0, [type |-> "none", data |-> <<>>])

\* An exception thrown in an event listener, outside every try and every
\* promise: the process ends and the request stays without a response.
Crash(c) == [Out(c, NoResponse, engine, origin) EXCEPT !.crash = TRUE]

\* A raw request to the engine socket: kind holds the HTTP method, id the
\* URL path.
Forward(method, path, headers) ==
    Call("forward", method, path, headers, <<>>, "ok")

\* pipes the request to the engine and the engine's response back
proxyRequestToDocker(r, headers) ==
    Out(<<Forward(r.method, r.path, headers)>>, Resp(200, Piped), engine, origin)

proxyRequestToDockerWithStrippedAuthInfo(r, headers) ==
    proxyRequestToDocker(r, stripAuthInfo(headers))

\* The engine with kind/id set to a resource, or removed.
EnginePut(kind, id, res) ==
    [engine EXCEPT ![kind] =
        [x \in (DOMAIN engine[kind]) \cup {id} |->
            IF x = id THEN res ELSE engine[kind][x]]]

EngineRemove(kind, id) ==
    [engine EXCEPT ![kind] = [x \in (DOMAIN engine[kind]) \ {id} |-> engine[kind][x]]]

OriginPut(p, kind, id) ==
    [x \in (DOMAIN origin) \cup {<<kind, id>>} |->
        IF x = <<kind, id>> THEN p ELSE origin[x]]

OriginDrop(kind, id) == [x \in (DOMAIN origin) \ {<<kind, id>>} |-> origin[x]]

\* The oracle call of a kind, as the mutating handlers make it.
OracleSays(p, kind, id) ==
    IF kind = "network" THEN isOwnedNetwork(p, id, FALSE) ELSE isOwned(p, kind, id)

NotOwnedText(kind) ==
    CASE kind = "service" -> <<"Access denied: Service is not owned.">>
      [] kind = "network" -> <<"Access denied: Network is not owned.">>
      [] kind = "secret"  -> <<"Access denied: Secret is not owned.">>
      [] kind = "config"  -> <<"Access denied: Config is not owned.">>
      [] kind = "volume"  -> <<"Access denied: Volume is not owned.">>

----------------------------------------------------------------------------
(* Handlers of networks, secrets, configs and volumes                      *)

\* A faulty delete handler that removes without asking the oracle.
HandleDeleteUnchecked(p, kind, id) ==
    Out(<<Call("remove", kind, id, NoHeaders, <<>>, "ok")>>,
        Resp(200, Text(<<"deleted successfully">>)),
        EngineRemove(kind, id), OriginDrop(kind, id))

\* A faulty delete handler that tells a resource that is not there from
\* one that is not owned.
HandleDeleteRevealing(p, kind, id) ==
    IF OracleSays(p, kind, id)
    THEN Out(<<InspectCall(kind, id), Call("remove", kind, id, NoHeaders, <<>>, "ok")>>,
             Resp(200, Text(<<"deleted successfully">>)),
             EngineRemove(kind, id), OriginDrop(kind, id))
    ELSE Reply(<<InspectCall(kind, id)>>, IF Exists(kind, id) THEN 403 ELSE 404,
               IF kind = "service" THEN <<"Access Denied: Service not owned">>
               ELSE NotOwnedText(kind))

\* router.delete('/:version?/<kind>s/:id')
HandleDelete(p, kind, id) ==
    IF OracleSays(p, kind, id)
    THEN Out(<<InspectCall(kind, id), Call("remove", kind, id, NoHeaders, <<>>, "ok")>>,
             Resp(200, Text(<<"deleted successfully">>)),
             EngineRemove(kind, id), OriginDrop(kind, id))
    ELSE Reply(<<InspectCall(kind, id)>>, 403,
               IF kind = "service" THEN <<"Access Denied: Service not owned">>
               ELSE NotOwnedText(kind))

\* A faulty inspect handler that answers 403 for every kind.
HandleInspectForbidden(p, kind, id) ==
    IF (IF kind = "network" THEN isOwnedNetwork(p, id, TRUE) ELSE isOwned(p, kind, id))
    THEN Out(<<InspectCall(kind, id), InspectCall(kind, id)>>,
             Resp(200, Json(Inspect(kind, id))), engine, origin)
    ELSE Reply(<<InspectCall(kind, id)>>, 403, NotOwnedText(kind))

\* router.get('/:version?/<kind>s/:id'): 404 for secrets and configs
HandleInspect(p, kind, id) ==
    LET owned == IF kind = "network" THEN isOwnedNetwork(p, id, TRUE)
                 ELSE isOwned(p, kind, id)
    IN  IF owned
        THEN Out(<<InspectCall(kind, id), InspectCall(kind, id)>>,
                 Resp(200, Json(Inspect(kind, id))), engine, origin)
        ELSE Reply(<<InspectCall(kind, id)>>,
                   IF kind \in {"secret", "config"} THEN 404 ELSE 403,
                   NotOwnedText(kind))

\* A faulty list handler that returns the engine's list as it is.
HandleListUnfiltered(p, kind) ==
    Out(<<Call("list", kind, <<>>, NoHeaders, <<>>, "ok")>>,
        Resp(200, Json({Inspect(kind, id)[1] : id \in DOMAIN engine[kind]})),
        engine, origin)

\* router.get('/:version?/<kind>s'): list, then filter to the owned ones
HandleList(p, kind) ==
    LET all == {Inspect(kind, id)[1] : id \in DOMAIN engine[kind]}
        owned == {x \in all :
                    IF kind = "network" THEN isNetworkOwned(p, x, TRUE)
                    ELSE isResourceOwned(p, kind, x)}
    IN  Out(<<Call("list", kind, <<>>, NoHeaders, <<>>, "ok")>>,
            Resp(200, Json(owned)), engine, origin)

\* The engine's create: a name that exists is a conflict.
EngineCreate(p, kind, spec, headers) ==
    IF Exists(kind, spec.Name)
    THEN Out(<<Call("create", kind, spec.Name, headers, spec, "error")>>,
             Resp(500, Text(<<"conflict">>)), engine, origin)
    ELSE Out(<<Call("create", kind, spec.Name, headers, spec, "ok")>>,
             Resp(201, Json(<<spec.Name>>)),
             EnginePut(kind, spec.Name, [Labels |-> spec.Labels]),
             OriginPut(p, kind, spec.Name))

NameRequiredText(kind) ==
    CASE kind = "service" -> <<"Service name is required.">>
      [] kind = "network" -> <<"Network name is required.">>
      [] kind = "secret"  -> <<"Secret name is required.">>
      [] kind = "config"  -> <<"Config name is required.">>
      [] kind = "volume"  -> <<"Volume name is required.">>

\* router.post('/:version?/networks/create'), secrets/create, configs/create
HandleCreate(p, kind, body) ==
    LET spec == [body EXCEPT !.Labels = Spread(body.Labels, tenantLabel, tenantLabelValue(p))]
    IN  IF ~Truthy(spec.Name) THEN Reply(<<>>, 400, NameRequiredText(kind))
        ELSE IF ~isResourceNameAllowed(p, spec.Name) THEN Reply(<<>>, 400, <<"name ", spec.Name, " is not allowed.">>)
        ELSE EngineCreate(p, kind, spec, NoHeaders)

\* A faulty update handler that answers an owner without sending the
\* update to the engine.
HandleUpdateDropped(p, kind, id, r) ==
    IF isOwned(p, kind, id)
    THEN Out(<<InspectCall(kind, id)>>, Resp(200, Json(<<>>)), engine, origin)
    ELSE Reply(<<InspectCall(kind, id)>>, 403, NotOwnedText(kind))

\* spec.version = req.query.version: the version travels to the engine as
\* a property of the spec the client library is handed.
SetVersion(spec, r) ==
    [f \in (DOMAIN spec) \cup {"version"} |->
        IF f = "version" THEN r.query.version ELSE spec[f]]

\* updateSpec.rollback = req.query.rollback, in the service update
SetRollback(spec, r) ==
    [f \in (DOMAIN spec) \cup {"rollback"} |->
        IF f = "rollback" THEN r.query.rollback ELSE spec[f]]

\* router.post('/:version?/secrets/:id/update'), configs/:id/update
HandleUpdate(p, kind, id, r) ==
    IF isOwned(p, kind, id)
    THEN LET spec == SetVersion([r.body EXCEPT !.Labels =
                         Spread(r.body.Labels, tenantLabel, tenantLabelValue(p))], r)
         IN  Out(<<InspectCall(kind, id),
                   Call("update", kind, id, NoHeaders, spec, "ok")>>,
                 Resp(200, Json(<<>>)),
                 EnginePut(kind, id, [Labels |-> spec.Labels]), origin)
    ELSE Reply(<<InspectCall(kind, id)>>, 403, NotOwnedText(kind))

----------------------------------------------------------------------------
(* Loops over references: the checks run in order and stop at the first    *)
(* one that fails.                                                         *)

MinOf(S) == CHOOSE i \in S : \A j \in S : i <= j

RECURSIVE Flatten(_)
Flatten(ss) == IF ss = <<>> THEN <<>> ELSE Head(ss) \o Flatten(Tail(ss))

\* for (const x of ids) { if (!await isOwned<Kind>(x)) { 403; return } }
\* skip(x) is the "continue" of the networks loop.
CheckRefs(p, kind, ids, skip(_)) ==
    LET bad == {i \in 1..Len(ids) : ~skip(ids[i]) /\ ~OracleSays(p, kind, ids[i])}
        stop == IF bad = {} THEN Len(ids) ELSE MinOf(bad)
    IN  [ok |-> bad = {},
         calls |-> Flatten([i \in 1..stop |->
                     IF skip(ids[i]) THEN <<>> ELSE <<InspectCall(kind, ids[i])>>]),
         bad |-> IF bad = {} THEN Missing ELSE ids[stop]]

NoSkip(x) == FALSE

----------------------------------------------------------------------------
(* Volumes                                                                 *)

\* router.post('/:version?/volumes/create')
HandleVolumeCreate(p, body) ==
    LET spec == [body EXCEPT !.Labels = Spread(body.Labels, tenantLabel, tenantLabelValue(p))]
        cvs == spec.ClusterVolumeSpec
        secrets == IF cvs # <<>> /\ cvs[1].AccessMode # <<>>
                   THEN cvs[1].AccessMode[1].Secrets ELSE <<>>
        chk == CheckRefs(p, "secret", secrets, NoSkip)
    IN  IF ~Truthy(spec.Name) THEN Reply(<<>>, 400, NameRequiredText("volume"))
        ELSE IF ~isResourceNameAllowed(p, spec.Name) THEN Reply(<<>>, 400, <<"name ", spec.Name, " is not allowed.">>)
        ELSE IF ~Truthy(spec.Driver) THEN Reply(<<>>, 400, <<"Volume driver is required.">>)
        ELSE IF ~isVolumeDriverAllowed(p, spec.Driver)
            THEN Reply(<<>>, 400, <<"Volume driver is not allowed.">>)
        \* clusterVolumeSpec.AccessMode of undefined: TypeError, caught
        ELSE IF cvs = <<>> THEN Reply(<<>>, 500, <<"TypeError">>)
        ELSE IF ~chk.ok THEN Reply(chk.calls, 403, <<"Access denied: Secret ", chk.bad, " is not owned.">>)
        ELSE LET out == EngineCreate(p, "volume", spec, NoHeaders)
             IN  [out EXCEPT !.calls = chk.calls \o @]

\* router.put('/:version?/volumes/:name'): dials the engine with the
\* request's headers and no body; the engine's update needs a version and
\* a body, so it answers with an error.
HandleVolumeUpdate(p, r, version, name) ==
    IF isOwnedVolume(p, name)
    THEN Out(<<InspectCall("volume", name),
               Call("dial", "PUT", <<version, W("volumes"), name>>, r.headers, <<>>, "error")>>,
             Resp(500, Text(<<"server error">>)), engine, origin)
    ELSE Reply(<<InspectCall("volume", name)>>, 403, NotOwnedText("volume"))

----------------------------------------------------------------------------
(* Tasks: engine.task is the engine's task list, each [ID, ServiceID].     *)

TaskOf(id) ==
    LET hits == {i \in 1..Len(engine.task) : engine.task[i].ID = id}
    IN  IF hits = {} \/ Fails("task") THEN <<>> ELSE <<engine.task[MinOf(hits)]>>

TaskInspectCall(id) ==
    Call("inspect", "task", id, NoHeaders, <<>>,
         IF TaskOf(id) # <<>> THEN "ok" ELSE "error")

\* A faulty oracle that asks for the task and not for its service.
isTaskThere(p, taskId) == TaskOf(taskId) # <<>>

isTaskOfOwnedService(p, taskId) ==
    TaskOf(taskId) # <<>> /\ isOwnedService(p, TaskOf(taskId)[1].ServiceID)

\* The engine requests of isTaskOfOwnedService.
TaskOracleCalls(taskId) ==
    <<TaskInspectCall(taskId)>> \o
    (IF TaskOf(taskId) = <<>> THEN <<>>
     ELSE <<InspectCall("service", TaskOf(taskId)[1].ServiceID)>>)

\* router.get('/:version?/tasks')
HandleTaskList(p) ==
    LET n == Len(engine.task)
        owned == {engine.task[i] : i \in {j \in 1..n : isOwnedService(p, engine.task[j].ServiceID)}}
    IN  Out(<<Call("list", "task", <<>>, NoHeaders, <<>>, "ok")>> \o
            [i \in 1..n |-> InspectCall("service", engine.task[i].ServiceID)],
            Resp(200, Json(owned)), engine, origin)

\* router.get('/:version?/tasks/:id')
HandleTaskInspect(p, taskId) ==
    IF isTaskOfOwnedService(p, taskId)
    THEN Out(TaskOracleCalls(taskId) \o <<TaskInspectCall(taskId)>>,
             Resp(200, Json(TaskOf(taskId))), engine, origin)
    ELSE Reply(TaskOracleCalls(taskId), 403,
               <<"Access denied: Task does not belong to an owned service.">>)

\* router.get('/:version?/tasks/:id/logs')
HandleTaskLogs(p, r, taskId) ==
    IF isTaskOfOwnedService(p, taskId)
    THEN LET out == proxyRequestToDockerWithStrippedAuthInfo(r, r.headers)
         IN  [out EXCEPT !.calls = TaskOracleCalls(taskId) \o @]
    ELSE Reply(TaskOracleCalls(taskId), 403, <<"Access Denied: Service not owned">>)

\* router.get('/:version?/services/:id/logs')
HandleServiceLogs(p, r, serviceId) ==
    IF isOwnedService(p, serviceId)
    THEN LET out == proxyRequestToDockerWithStrippedAuthInfo(r, r.headers)
         IN  [out EXCEPT !.calls = <<InspectCall("service", serviceId)>> \o @]
    ELSE Reply(<<InspectCall("service", serviceId)>>, 403, <<"Access Denied: Service not owned">>)

----------------------------------------------------------------------------
(* Service specs.  A task template is                                      *)
(*   [Runtime, ContainerSpec : optional, Networks : seq of targets]        *)
(* a container spec [Image, Labels, Secrets, Configs, Mounts, SecretIDs,  *)
(* ConfigIDs], and a mount                                                 *)
(* [Type, Source, VolumeOptions : optional [Labels]].                      *)

\* What a validation step yields: res is "ok", "reject" (a response was
\* written) or "throw" (an exception left the function); c holds the engine
\* requests the step issued.
Step(res, status, msg, c, value) ==
    [res |-> res, status |-> status, msg |-> msg, calls |-> c, value |-> value]

Ok(c, value) == Step("ok", 200, <<>>, c, value)

\* Steps run in order and end at the first that is not "ok"; value holds
\* the value of every step.
RunSteps(steps) ==
    LET bad == {i \in 1..Len(steps) : steps[i].res # "ok"}
        stop == IF bad = {} THEN Len(steps) ELSE MinOf(bad)
        c == Flatten([i \in 1..stop |-> steps[i].calls])
        values == [i \in 1..Len(steps) |-> steps[i].value]
    IN  IF bad = {} THEN Ok(c, values)
        ELSE Step(steps[stop].res, steps[stop].status, steps[stop].msg, c, values)

\* if (!spec.Name) 400; if (!isResourceNameAllowed(spec.Name)) 400
NameStep(p, kind, name) ==
    IF ~Truthy(name) THEN Step("reject", 400, NameRequiredText(kind), <<>>, name)
    ELSE IF ~isResourceNameAllowed(p, name)
    THEN Step("reject", 400, <<"name ", name, " is not allowed.">>, <<>>, name)
    ELSE Ok(<<>>, name)

\* if (await isOwned<Kind>(id)) ... else 403
OwnedStep(p, kind, id) ==
    IF OracleSays(p, kind, id) THEN Ok(<<InspectCall(kind, id)>>, id)
    ELSE Step("reject", 403, NotOwnedText(kind), <<InspectCall(kind, id)>>, id)

\* A faulty step that lets every reference pass.
RefsStepAlways(what, chk) == Ok(chk.calls, <<>>)

\* A loop over references as a step; what names the kind in the message.
RefsStep(what, chk) ==
    IF chk.ok THEN Ok(chk.calls, <<>>)
    ELSE Step("reject", 403, <<"Access denied: ", what, " ", chk.bad, " is not owned.">>,
              chk.calls, <<>>)

\* A faulty endpoint-spec validation that accepts every spec.
isValidEndpointSpecAlways(p, endpointSpec) == Ok(<<>>, <<>>)

\* if (spec.EndpointSpec && !await isValidEndpointSpec(res, spec.EndpointSpec))
isValidEndpointSpec(p, endpointSpec) ==
    IF endpointSpec # <<>> /\ endpointSpec[1].Ports # <<>> /\ ~cfg[p].ALLOW_PORT_EXPOSE
    THEN Step("reject", 403, <<"Access denied: Exposing ports is not allowed.">>, <<>>, <<>>)
    ELSE Ok(<<>>, <<>>)

\* The engine requests of one turn of the loop over the mounts:
\* doesVolumeExist, then isOwnedVolume when the volume exists.
MountCalls(mount) ==
    IF mount.Type \notin {"volume", "cluster"} THEN <<>>
    ELSE IF doesVolumeExist(mount.Source)
    THEN <<InspectCall("volume", mount.Source), InspectCall("volume", mount.Source)>>
    ELSE <<InspectCall("volume", mount.Source)>>

\* A faulty turn of the loop that does not ask who owns the volume.
CheckMountUnowned(p, mount) ==
    IF ~isKnownMountType(mount.Type)
    THEN Step("reject", 400, <<"Mount type ", mount.Type, " is not supported.">>, <<>>, mount)
    ELSE IF ~isMountTypeAllowed(p, mount.Type)
    THEN Step("reject", 400, <<"Mount type ", mount.Type, " is not allowed.">>, <<>>, mount)
    ELSE IF mount.Type \notin {"volume", "cluster"} THEN Ok(<<>>, mount)
    ELSE IF mount.VolumeOptions = <<>>
    THEN Step("throw", 500, <<"TypeError">>, MountCalls(mount), mount)
    ELSE Ok(MountCalls(mount),
            [mount EXCEPT !.VolumeOptions =
                <<[Labels |-> Spread(mount.VolumeOptions[1].Labels,
                                     tenantLabel, tenantLabelValue(p))]>>])

\* One turn of the loop over containerSpec.Mounts; value is the mount as
\* the turn leaves it.
CheckMount(p, mount) ==
    IF ~isKnownMountType(mount.Type)
    THEN Step("reject", 400, <<"Mount type ", mount.Type, " is not supported.">>, <<>>, mount)
    ELSE IF ~isMountTypeAllowed(p, mount.Type)
    THEN Step("reject", 400, <<"Mount type ", mount.Type, " is not allowed.">>, <<>>, mount)
    ELSE IF mount.Type \notin {"volume", "cluster"} THEN Ok(<<>>, mount)
    ELSE IF doesVolumeExist(mount.Source) /\ ~isOwnedVolume(p, mount.Source)
    THEN Step("reject", 403, <<"Access denied: Volume ", mount.Source, " is not owned.">>,
              MountCalls(mount), mount)
    \* mount.VolumeOptions.Labels = ... of undefined: TypeError
    ELSE IF mount.VolumeOptions = <<>>
    THEN Step("throw", 500, <<"TypeError">>, MountCalls(mount), mount)
    ELSE Ok(MountCalls(mount),
            [mount EXCEPT !.VolumeOptions =
                <<[Labels |-> Spread(mount.VolumeOptions[1].Labels,
                                     tenantLabel, tenantLabelValue(p))]>>])

\* The loop over the mounts: stops at the first turn that is not "ok".
CheckMounts(p, mounts) ==
    IF mounts = <<>> THEN Ok(<<>>, <<>>)
    ELSE RunSteps([i \in 1..Len(mounts) |-> CheckMount(p, mounts[i])])

\* if (runtime is neither plugin nor attachment && !containerSpec) 400
RequireContainerSpec(taskTemplate) ==
    IF /\ taskTemplate = <<>> \/ taskTemplate[1].Runtime \notin {"plugin", "attachment"}
       /\ taskTemplate = <<>> \/ taskTemplate[1].ContainerSpec = <<>>
    THEN Step("reject", 400, <<"ContainerSpec is required in TaskTemplate.">>, <<>>, <<>>)
    ELSE Ok(<<>>, <<>>)

\* The container spec of a task template, <<>> when there is none.
ContainerSpecOf(taskTemplate) ==
    IF taskTemplate = <<>> THEN <<>> ELSE taskTemplate[1].ContainerSpec

\* A field of the container spec that holds a list; <<>> without one.
ListOf(containerSpec, field) ==
    IF containerSpec = <<>> THEN <<>> ELSE containerSpec[1][field]

\* The template with the mounts as the loop over them left them.
WithMounts(taskTemplate, run) ==
    IF run.res = "ok" /\ ContainerSpecOf(taskTemplate) # <<>>
    THEN [run EXCEPT !.value =
            <<[taskTemplate[1] EXCEPT !.ContainerSpec =
                 <<[taskTemplate[1].ContainerSpec[1] EXCEPT !.Mounts = run.value[5]]>>]>>]
    ELSE [run EXCEPT !.value = taskTemplate]

\* isValidTaskTemplate(res, taskTemplate): the container spec is required,
\* then the networks, secrets, configs and mounts are checked in turn.
isValidTaskTemplate(p, taskTemplate) ==
    LET AllowListed(n) == n \in cfg[p].SERVICE_ALLOW_LISTED_NETWORKS
        containerSpec == ContainerSpecOf(taskTemplate)
    IN  WithMounts(taskTemplate, RunSteps(<<
            RequireContainerSpec(taskTemplate),
            RefsStep("Network",
                CheckRefs(p, "network",
                          IF taskTemplate = <<>> THEN <<>> ELSE taskTemplate[1].Networks,
                          AllowListed)),
            RefsStep("Secret", CheckRefs(p, "secret", ListOf(containerSpec, "Secrets"), NoSkip)),
            RefsStep("Config", CheckRefs(p, "config", ListOf(containerSpec, "Configs"), NoSkip)),
            CheckMounts(p, ListOf(containerSpec, "Mounts")) >>))

\* The permission probe: GET /distribution/<image>/json on the engine, with
\* the stored credentials when the store has an entry.  probe is the
\* engine's answer: "200"; "denied", another status with a JSON body;
\* "garbled", another status with a body JSON.parse rejects, so that the
\* 'end' listener throws; "error", a failure of the transport; "aborted",
\* a response that breaks off after its head, so that neither 'end' nor the
\* request's 'error' is emitted and the promise is never settled.
checkPermissionsOnDockerImage(image, registryAuth, probe) ==
    [success |-> probe = "200",
     threw |-> probe = "garbled",
     hung |-> probe = "aborted",
     call |-> Call("probe", "GET", <<W("distribution"), image, W("json")>>,
                   IF registryAuth # <<>>
                   THEN [h \in {"x-registry-auth"} |-> AuthHeader(registryAuth[1])]
                   ELSE NoHeaders,
                   <<>>, probe)]

\* !x for a JavaScript object x: an object is never falsy.
IsFalsyObject(x) == FALSE

\* if (ONLY_KNOWN_REGISTRIES && !registryAuth): registryAuth is the object
\* that getAuthForDockerImage returns.
OnlyKnownRegistriesDenies(p, registryAuth) ==
    cfg[p].ONLY_KNOWN_REGISTRIES /\ IsFalsyObject(registryAuth)

\* A faulty choice of credentials that passes on every stored entry, also
\* one marked anonymous.
AuthConfigHeadersAnyEntry(registryAuth) ==
    IF registryAuth.auth # <<>>
    THEN [h \in {"x-registry-auth"} |-> AuthHeader(registryAuth.auth[1])]
    ELSE NoHeaders

\* The credentials a create/update passes on: stored and not anonymous.
AuthConfigHeaders(registryAuth) ==
    IF registryAuth.auth # <<>> /\ ~registryAuth.auth[1].anonymous
    THEN [h \in {"x-registry-auth"} |-> AuthHeader(registryAuth.auth[1])]
    ELSE NoHeaders

\* The volumes the engine makes for the mounts of a service whose Source
\* does not exist yet: each takes the labels of the mount's VolumeOptions.
Fresh(e, taskTemplate) ==
    LET mounts == ListOf(ContainerSpecOf(taskTemplate), "Mounts")
    IN  {i \in 1..Len(mounts) :
            /\ mounts[i].Type \in {"volume", "cluster"}
            /\ mounts[i].Source \notin DOMAIN e.volume}

Materialize(e, taskTemplate) ==
    LET mounts == ListOf(ContainerSpecOf(taskTemplate), "Mounts")
        fresh == Fresh(e, taskTemplate)
        LabelsOf(src) ==
            LET i == MinOf({j \in fresh : mounts[j].Source = src})
            IN  IF mounts[i].VolumeOptions = <<>> THEN NoLabels
                ELSE mounts[i].VolumeOptions[1].Labels
    IN  [e EXCEPT !.volume =
            [x \in (DOMAIN e.volume) \cup {mounts[i].Source : i \in fresh} |->
                IF x \in DOMAIN e.volume THEN e.volume[x]
                ELSE [Labels |-> LabelsOf(x)]]]

\* spec.Labels = {...spec.Labels, [tenantLabel]: tenantLabelValue}
\* if (taskTemplate.ContainerSpec) taskTemplate.ContainerSpec.Labels = {...}
StampService(p, spec, taskTemplate) ==
    [spec EXCEPT
        !.Labels = Spread(spec.Labels, tenantLabel, tenantLabelValue(p)),
        !.TaskTemplate =
            IF ContainerSpecOf(taskTemplate) # <<>>
            THEN <<[taskTemplate[1] EXCEPT !.ContainerSpec =
                      <<[taskTemplate[1].ContainerSpec[1] EXCEPT
                            !.Labels = Spread(@, tenantLabel, tenantLabelValue(p))]>>]>>
            ELSE taskTemplate]

Prepend(c, out) == [out EXCEPT !.calls = c \o @]

\* The history of a request of proxy p that made the engine materialize
\* the volumes of a task template.
MaterializeOrigin(p, o, taskTemplate) ==
    LET mounts == ListOf(ContainerSpecOf(taskTemplate), "Mounts")
        made == {<<"volume", mounts[i].Source>> : i \in Fresh(engine, taskTemplate)}
    IN  [x \in (DOMAIN o) \cup made |-> IF x \in made THEN p ELSE o[x]]

\* docker.createService(auth?, serviceSpec)
EngineCreateService(p, spec, headers) ==
    IF Exists("service", spec.Name) THEN EngineCreate(p, "service", spec, headers)
    ELSE [EngineCreate(p, "service", spec, headers) EXCEPT
             !.engine = Materialize(@, spec.TaskTemplate),
             !.origin = MaterializeOrigin(p, @, spec.TaskTemplate)]

\* service.update(auth?, updateSpec)
EngineUpdateService(p, id, spec, headers) ==
    Out(<<Call("update", "service", id, headers, spec, "ok")>>,
        Resp(200, Json(<<>>)),
        Materialize(EnginePut("service", id, [Labels |-> spec.Labels]), spec.TaskTemplate),
        MaterializeOrigin(p, origin, spec.TaskTemplate))

\* The engine call a service handler ends with: id is Missing for a create.
EngineSend(p, id, spec, headers) ==
    IF id = Missing THEN EngineCreateService(p, spec, headers)
    ELSE EngineUpdateService(p, id, spec, headers)

\* From the probe's answer to the engine call.
AfterProbe(p, id, c, spec, registryAuth, check) ==
    IF check.threw THEN Crash(c \o <<check.call>>)
    ELSE IF check.hung THEN Out(c \o <<check.call>>, NoResponse, engine, origin)
    ELSE IF ~check.success
    THEN Reply(c \o <<check.call>>, 403, <<"Permission check failed">>)
    ELSE Prepend(c \o <<check.call>>,
                 EngineSend(p, id, spec, AuthConfigHeaders(registryAuth)))

\* From getAuthForDockerImage on; image is taskTemplate.ContainerSpec!.Image.
AfterAuth(p, id, c, spec, image, registryAuth, probe) ==
    IF OnlyKnownRegistriesDenies(p, registryAuth)
    THEN Reply(c, 403, <<"Access denied: Only known registries are allowed.">>)
    ELSE AfterProbe(p, id, c, spec, registryAuth,
                    checkPermissionsOnDockerImage(image, registryAuth.auth, probe))

\* The part create and update share, from getAuthForDockerImage to the
\* engine call.
ProbeThenSend(p, id, c, spec, probe) ==
    \* taskTemplate.ContainerSpec!.Image of undefined: TypeError, caught
    IF ContainerSpecOf(spec.TaskTemplate) = <<>> THEN Reply(c, 500, <<"TypeError">>)
    ELSE AfterAuth(p, id, c, spec, spec.TaskTemplate[1].ContainerSpec[1].Image,
                   getAuthForDockerImage(p, spec.TaskTemplate[1].ContainerSpec[1].Image),
                   probe)

\* A faulty continuation that goes on to the probe and the engine call
\* whatever the validation said.
AfterValidationUnheeded(p, r, id, run) ==
    ProbeThenSend(p, id, run.calls, r.body, r.probe)

\* What follows the validation steps of a service handler; run.value[2] is
\* the task template as validation left it.  An update without a task
\* template stamps nothing.
AfterValidation(p, r, id, run) ==
    IF run.res = "reject" THEN Reply(run.calls, run.status, run.msg)
    ELSE IF run.res = "throw" THEN Reply(run.calls, 500, run.msg)
    ELSE ProbeThenSend(p, id, run.calls,
                       IF id = Missing THEN StampService(p, r.body, run.value[2])
                       ELSE SetRollback(
                                SetVersion(IF r.body.TaskTemplate = <<>> THEN r.body
                                           ELSE StampService(p, r.body, run.value[2]), r),
                                r),
                       r.probe)

\* router.post('/:version?/services/create')
HandleServiceCreate(p, r) ==
    AfterValidation(p, r, Missing, RunSteps(<<
        NameStep(p, "service", r.body.Name),
        isValidTaskTemplate(p, r.body.TaskTemplate),
        isValidEndpointSpec(p, r.body.EndpointSpec) >>))

\* router.post('/:version?/services/:id/update')
HandleServiceUpdate(p, r, serviceId) ==
    AfterValidation(p, r, serviceId, RunSteps(<<
        OwnedStep(p, "service", serviceId),
        IF r.body.TaskTemplate = <<>> THEN Ok(<<>>, <<>>)
        ELSE isValidTaskTemplate(p, r.body.TaskTemplate),
        isValidEndpointSpec(p, r.body.EndpointSpec) >>))

\* From the probe's answer to the forward; h holds the headers with the
\* stored credentials set.
DistributionAfterProbe(r, h, check) ==
    IF check.threw THEN Crash(<<check.call>>)
    ELSE IF check.hung THEN Out(<<check.call>>, NoResponse, engine, origin)
    ELSE IF ~check.success THEN Reply(<<check.call>>, 403, <<"Permission check failed">>)
    ELSE Prepend(<<check.call>>, proxyRequestToDockerWithStrippedAuthInfo(r, h))

\* router.get('/:version?/distribution/:name/json')
HandleDistribution(p, r, name) ==
    IF OnlyKnownRegistriesDenies(p, getAuthForDockerImage(p, name))
    THEN Reply(<<>>, 403, <<"Access denied: Only known registries are allowed.">>)
    ELSE DistributionAfterProbe(r,
            IF AuthConfigHeaders(getAuthForDockerImage(p, name)) # NoHeaders
            THEN Spread(stripAuthInfo(r.headers), "x-registry-auth",
                        AuthHeader(getAuthForDockerImage(p, name).auth[1]))
            ELSE stripAuthInfo(r.headers),
            checkPermissionsOnDockerImage(name, getAuthForDockerImage(p, name).auth, r.probe))

----------------------------------------------------------------------------
(* Requests.  A scope names the small sets the parts of a request are      *)
(* drawn from: path prefixes, header sets, identifiers, bodies.            *)

Methods == {"GET", "HEAD", "POST", "PUT", "DELETE", "OPTIONS"}

ClientAuth == <<"Zm9v">>

ClientConfig == <<"Y2Zn">>

\* No registry headers; both, as a client sets them; x-registry-auth with
\* an empty value.
HeadersNone == NoHeaders

HeadersClient ==
    [h \in {"x-registry-auth", "x-registry-config"} |->
        IF h = "x-registry-auth" THEN ClientAuth ELSE ClientConfig]

HeadersEmpty == [h \in {"x-registry-auth"} |-> <<>>]

\* The pattern with its parameter, if any, set to id.
Inst(pat, id) == [i \in 1..Len(pat) |-> IF pat[i] \in PathParams THEN id ELSE W(pat[i])]

RoutesOf(h) == {i \in 1..Len(Routes) : Routes[i].handler = h}

\* The (method, path) pairs of the scope that the router hands to handler h.
Offered(s, h) ==
    {mp \in {[method |-> m, path |-> pre \o Inst(Routes[i].pat, id)] :
                m \in Methods \ {"OPTIONS"}, pre \in s.prefixes, id \in s.ids,
                i \in RoutesOf(h)} :
        HandlerOf(mp.method, mp.path) = h}

\* Every path of the scope: the routes' patterns and the stray tails.
AllPaths(s) ==
    {pre \o tail : pre \in s.prefixes,
                   tail \in {Inst(Routes[i].pat, id) : i \in 1..Len(Routes), id \in s.ids}
                            \cup s.strays}

\* query.version is req.query.version, query.rollback req.query.rollback:
\* Missing when the URL has none.
Request(p, mp, headers, body, probe) ==
    [proxy |-> p, method |-> mp.method, path |-> mp.path, headers |-> headers,
     body |-> body, probe |-> probe, query |-> [version |-> Missing, rollback |-> Missing]]

\* The request with ?version=v appended to its URL.
WithVersion(r, v) == [r EXCEPT !.query.version = v]

\* The request with &rollback=rb appended to its URL.
WithRollback(r, rb) == [r EXCEPT !.query.rollback = rb]

NoBody == <<>>

\* The engine stays within the bounds of the model.
WithinBounds(e) == \A k \in Kinds : Cardinality(DOMAIN e[k]) <= MaxPerKind

\* The request is served: its outcome becomes the state.
Serve(r, out) ==
    /\ pc = "idle"
    /\ served < MaxRequests
    /\ r.proxy \notin down
    /\ WithinBounds(out.engine)
    /\ pc' = "done"
    /\ served' = served + 1
    /\ down' = IF out.crash THEN down \cup {r.proxy} ELSE down
    /\ req' = r
    /\ calls' = out.calls
    /\ resp' = out.resp
    /\ engine' = out.engine
    /\ origin' = out.origin
    /\ UNCHANGED <<cfg, failing, stream, race, gap, www>>

\* A request of handler h without a body.
Plain(s, h, handle(_, _)) ==
    /\ pc = "idle"
    /\ served < MaxRequests
    /\ \E mp \in Offered(s, h), p \in DOMAIN cfg, hd \in s.headers, v \in s.versions :
        LET r == WithVersion(Request(p, mp, hd, NoBody, "200"), v)
        IN  Serve(r, handle(p, r))

\* A request of handler h with a body out of bodies.
WithBody(s, h, bodies, probes, handle(_, _)) ==
    /\ pc = "idle"
    /\ served < MaxRequests
    /\ \E mp \in Offered(s, h), p \in DOMAIN cfg, hd \in s.headers,
       b \in bodies, pr \in probes, v \in s.versions, rb \in s.rollbacks :
        LET r == WithRollback(WithVersion(Request(p, mp, hd, b, pr), v), rb)
        IN  Serve(r, handle(p, r))

Id(r) == ParamId(r.method, r.path)

----------------------------------------------------------------------------
(* One action per route handler                                            *)

\* A faulty read-only route that asks for the owner of a service first.
PassthroughGuarded(p, r) ==
    IF isOwnedService(p, B)
    THEN Prepend(<<InspectCall("service", B)>>,
                 proxyRequestToDockerWithStrippedAuthInfo(r, r.headers))
    ELSE Reply(<<InspectCall("service", B)>>, 403, NotOwnedText("service"))

\* router.get('/_ping'), '/:version?/version', '/:version?/nodes',
\* '/:version?/nodes/:id', '/:version?/info'
Passthrough(p, r) == proxyRequestToDockerWithStrippedAuthInfo(r, r.headers)

Ping(s) == Plain(s, "ping", Passthrough)

Version(s) == Plain(s, "version", Passthrough)

Nodes(s) == Plain(s, "nodes", Passthrough)

Node(s) == Plain(s, "node", Passthrough)

Info(s) == Plain(s, "info", Passthrough)

Distribution(s) ==
    /\ pc = "idle"
    /\ served < MaxRequests
    /\ \E mp \in {x \in {[method |-> m,
                            path |-> pre \o <<W("distribution"), img, W("json")>>] :
                              m \in {"GET", "HEAD"}, pre \in s.prefixes, img \in s.images} :
                    HandlerOf(x.method, x.path) = "distribution"},
       p \in DOMAIN cfg, hd \in s.headers, pr \in s.probes :
        LET r == Request(p, mp, hd, NoBody, pr)
        IN  Serve(r, HandleDistribution(p, r, Id(r)))

ServiceCreate(s) ==
    WithBody(s, "serviceCreate", s.services, s.probes, HandleServiceCreate)

ServiceUpdate(s) ==
    WithBody(s, "serviceUpdate", s.services, s.probes,
             LAMBDA p, r : HandleServiceUpdate(p, r, Id(r)))

ServiceList(s) == Plain(s, "serviceList", LAMBDA p, r : HandleList(p, "service"))

ServiceInspect(s) ==
    Plain(s, "serviceInspect", LAMBDA p, r : HandleInspect(p, "service", Id(r)))

ServiceDelete(s) ==
    Plain(s, "serviceDelete", LAMBDA p, r : HandleDelete(p, "service", Id(r)))

ServiceLogs(s) == Plain(s, "serviceLogs", LAMBDA p, r : HandleServiceLogs(p, r, Id(r)))

TaskList(s) == Plain(s, "taskList", LAMBDA p, r : HandleTaskList(p))

TaskInspect(s) == Plain(s, "taskInspect", LAMBDA p, r : HandleTaskInspect(p, Id(r)))

TaskLogs(s) == Plain(s, "taskLogs", LAMBDA p, r : HandleTaskLogs(p, r, Id(r)))

NetworkCreate(s) ==
    WithBody(s, "networkCreate", s.bodies, {"200"},
             LAMBDA p, r : HandleCreate(p, "network", r.body))

NetworkList(s) == Plain(s, "networkList", LAMBDA p, r : HandleList(p, "network"))

NetworkDelete(s) ==
    Plain(s, "networkDelete", LAMBDA p, r : HandleDelete(p, "network", Id(r)))

NetworkInspect(s) ==
    Plain(s, "networkInspect", LAMBDA p, r : HandleInspect(p, "network", Id(r)))

SecretCreate(s) ==
    WithBody(s, "secretCreate", s.bodies, {"200"},
             LAMBDA p, r : HandleCreate(p, "secret", r.body))

SecretList(s) == Plain(s, "secretList", LAMBDA p, r : HandleList(p, "secret"))

SecretDelete(s) ==
    Plain(s, "secretDelete", LAMBDA p, r : HandleDelete(p, "secret", Id(r)))

SecretInspect(s) ==
    Plain(s, "secretInspect", LAMBDA p, r : HandleInspect(p, "secret", Id(r)))

SecretUpdate(s) ==
    WithBody(s, "secretUpdate", s.bodies, {"200"},
             LAMBDA p, r : HandleUpdate(p, "secret", Id(r), r))

ConfigCreate(s) ==
    WithBody(s, "configCreate", s.bodies, {"200"},
             LAMBDA p, r : HandleCreate(p, "config", r.body))

ConfigList(s) == Plain(s, "configList", LAMBDA p, r : HandleList(p, "config"))

ConfigDelete(s) ==
    Plain(s, "configDelete", LAMBDA p, r : HandleDelete(p, "config", Id(r)))

ConfigInspect(s) ==
    Plain(s, "configInspect", LAMBDA p, r : HandleInspect(p, "config", Id(r)))

ConfigUpdate(s) ==
    WithBody(s, "configUpdate", s.bodies, {"200"},
             LAMBDA p, r : HandleUpdate(p, "config", Id(r), r))

VolumeCreate(s) ==
    WithBody(s, "volumeCreate", s.volumes, {"200"},
             LAMBDA p, r : HandleVolumeCreate(p, r.body))

VolumeList(s) == Plain(s, "volumeList", LAMBDA p, r : HandleList(p, "volume"))

VolumeDelete(s) ==
    Plain(s, "volumeDelete", LAMBDA p, r : HandleDelete(p, "volume", Id(r)))

VolumeInspect(s) ==
    Plain(s, "volumeInspect", LAMBDA p, r : HandleInspect(p, "volume", Id(r)))

VolumeUpdate(s) ==
    Plain(s, "volumeUpdate",
          LAMBDA p, r : HandleVolumeUpdate(p, r, ParamVersion(r.method, r.path), Id(r)))

\* The path matches a route's path, whatever the route's method.
PathRouted(path) == \E i \in 1..Len(Routes) : RouteMatches(Routes[i], path)

\* No route serves the request: the router's automatic answer to OPTIONS
\* on a routed path (200 with an Allow header), else express's final 404.
Unrouted(s) ==
    /\ pc = "idle"
    /\ served < MaxRequests
    /\ \E mp \in {x \in [method : Methods, path : AllPaths(s)] :
                    HandlerOf(x.method, x.path) = "none"},
       p \in DOMAIN cfg, hd \in s.headers :
        LET r == Request(p, mp, hd, NoBody, "200")
        IN  Serve(r, IF mp.method = "OPTIONS" /\ PathRouted(mp.path)
                     THEN Reply(<<>>, 200, <<"Allow">>)
                     ELSE Reply(<<>>, 404, <<"Cannot ", mp.method>>))

----------------------------------------------------------------------------
(* proxyRequestToDocker, step by step: the request to the engine socket,   *)
(* the response callback that copies status and headers and pipes the      *)
(* body, and the 'error' listener of the request.                          *)

\* The engine's response holds at most this many chunks.
MaxChunks == 2

\* No exchange in flight.  upstream is the proxy's request to the engine
\* ("open" from http.request until the engine's response ends or the
\* transport fails); client is the client's connection; head is the engine's
\* status and headers once they arrived; heads counts the calls of
\* res.writeHead; wire is what was written to the client; sent holds the
\* chunks the engine emitted; piped says that proxyRes is piped into res;
\* closing says that the client's 'close' event waits to be handled.
NoStream ==
    [upstream |-> "none", client |-> "none", head |-> <<>>, heads |-> 0,
     wire |-> <<>>, sent |-> <<>>, piped |-> FALSE, closing |-> FALSE]

\* http.request(options, callback); req.pipe(proxyReq)
Opened == [NoStream EXCEPT !.upstream = "open", !.client = "open"]

\* What the engine answers with: a status and its headers.
EngineHeads ==
    {[status |-> 200, headers |-> "application/json"],
     [status |-> 404, headers |-> "text/plain"]}

WrittenHead(h) == [t |-> "head", status |-> h.status, headers |-> h.headers]

WrittenChunk(n) == [t |-> "chunk", status |-> 0, headers |-> n]

\* res.writeHead(500); res.end('Internal server error')
WrittenError ==
    <<[t |-> "head", status |-> 500, headers |-> ""],
      [t |-> "text", status |-> 0, headers |-> "Internal server error"]>>

\* A request of handler h that ends in proxyRequestToDocker when the handler
\* lets it through; the handler's own answer otherwise.
Proxied(s, h, handle(_, _)) ==
    /\ pc = "idle"
    /\ served < MaxRequests
    /\ \E mp \in Offered(s, h), p \in DOMAIN cfg, hd \in s.headers :
        LET r == Request(p, mp, hd, NoBody, "200")
            out == handle(p, r)
        IN  /\ p \notin down
            /\ req' = r
            /\ calls' = out.calls
            /\ served' = served + 1
            /\ IF out.resp.body.type = "piped"
               THEN pc' = "streaming" /\ resp' = NoResponse /\ stream' = Opened
               ELSE pc' = "done" /\ resp' = out.resp /\ stream' = stream
    /\ UNCHANGED <<cfg, engine, origin, down, failing, race, gap, www>>

\* The response callback: res.writeHead(proxyRes.statusCode || 500,
\* proxyRes.headers); proxyRes.pipe(res).  Nothing reaches a client that is
\* gone.
EngineResponds ==
    /\ pc = "streaming"
    /\ stream.upstream = "open"
    /\ stream.head = <<>>
    /\ \E h \in EngineHeads :
        /\ stream' = [stream EXCEPT
                        !.head = <<h>>,
                        !.heads = @ + 1,
                        !.piped = stream.client = "open",
                        !.wire = IF stream.client = "open" THEN <<WrittenHead(h)>> ELSE @]
        /\ resp' = IF stream.client = "open" THEN Resp(h.status, Piped) ELSE resp
    /\ UNCHANGED <<cfg, engine, pc, req, calls, origin, served, down, failing, race, gap, www>>

\* The engine emits a chunk of the body; the pipe writes it to the client.
EngineChunk ==
    /\ pc = "streaming"
    /\ stream.upstream = "open"
    /\ stream.head # <<>>
    /\ Len(stream.sent) < MaxChunks
    /\ stream' = [stream EXCEPT
                    !.sent = Append(@, Len(@) + 1),
                    !.wire = IF stream.piped /\ stream.client = "open"
                             THEN Append(@, WrittenChunk(Len(stream.sent) + 1)) ELSE @]
    /\ UNCHANGED <<cfg, engine, pc, req, calls, resp, origin, served, down, failing, race, gap, www>>

\* The engine ends its response; the pipe ends the client's response.
EngineEnds ==
    /\ pc = "streaming"
    /\ stream.upstream = "open"
    /\ stream.head # <<>>
    /\ stream' = [stream EXCEPT
                    !.upstream = "ended",
                    !.client = IF stream.piped /\ @ = "open" THEN "ended" ELSE @]
    /\ pc' = "done"
    /\ UNCHANGED <<cfg, engine, req, calls, resp, origin, served, down, failing, race, gap, www>>

\* The client closes its connection before the response has ended.
ClientDisconnects ==
    /\ pc = "streaming"
    /\ stream.client = "open"
    /\ stream' = [stream EXCEPT !.client = "gone", !.closing = TRUE]
    /\ UNCHANGED <<cfg, engine, pc, req, calls, resp, origin, served, down, failing, race, gap, www>>

\* The 'close' event of the client's response: the only listener is the one
\* proxyRes.pipe(res) installed, and it unpipes.  proxyRequestToDocker
\* registers no listener of its own, and nothing aborts or destroys the
\* request to the engine.
OnClose ==
    /\ pc = "streaming"
    /\ stream.closing
    /\ stream' = [stream EXCEPT !.closing = FALSE, !.piped = FALSE]
    /\ UNCHANGED <<cfg, engine, pc, req, calls, resp, origin, served, down, failing, race, gap, www>>

\* The transport to the engine fails before the engine's response arrived:
\* proxyReq.on('error') writes 500.
EngineFailsEarly ==
    /\ pc = "streaming"
    /\ stream.upstream = "open"
    /\ stream.head = <<>>
    /\ stream' = [stream EXCEPT
                    !.upstream = "failed",
                    !.heads = @ + 1,
                    !.wire = IF stream.client = "open" THEN WrittenError ELSE @,
                    !.client = IF @ = "open" THEN "ended" ELSE @]
    /\ resp' = IF stream.client = "open"
               THEN Resp(500, Text(<<"Internal server error">>)) ELSE resp
    /\ pc' = "done"
    /\ UNCHANGED <<cfg, engine, req, calls, origin, served, down, failing, race, gap, www>>

\* The transport fails after the response callback ran, and the request
\* emits 'error': the listener calls res.writeHead(500) on a response whose
\* headers are out, which throws; thrown in an event listener, the
\* exception ends the process.
EngineFailsLate ==
    /\ pc = "streaming"
    /\ stream.upstream = "open"
    /\ stream.head # <<>>
    /\ stream' = [stream EXCEPT
                    !.upstream = "failed",
                    !.heads = @ + 1,
                    !.piped = FALSE,
                    !.closing = FALSE,
                    !.client = IF @ = "open" THEN "reset" ELSE @]
    /\ down' = down \cup {req.proxy}
    /\ pc' = "done"
    /\ UNCHANGED <<cfg, engine, req, calls, resp, origin, served, failing, race, gap, www>>

\* The engine's socket closes in the middle of the response without an
\* 'error' on the request: the engine's response is destroyed and never
\* emits 'end', so the pipe never ends the client's response.
EngineGoesAway ==
    /\ pc = "streaming"
    /\ stream.upstream = "open"
    /\ stream.head # <<>>
    /\ stream' = [stream EXCEPT !.upstream = "failed"]
    /\ UNCHANGED <<cfg, engine, pc, req, calls, resp, origin, served, down, failing, race, gap, www>>

----------------------------------------------------------------------------
(* Service updates in flight at the same time.  A handler runs from one    *)
(* await to the next; between the moment it hands the update to the engine *)
(* and the moment the engine's answer resumes it, the other request runs.  *)

\* The requests that can be in flight together.
Slots == {1, 2}

\* A slot without a request.  beside is history: the state the other slot
\* was in when the request of this one arrived.
IdleSlot ==
    [state |-> "idle", r |-> <<>>, calls |-> <<>>, sent |-> 0, result |-> "none",
     resp |-> NoResponse, beside |-> "idle"]

\* No update in flight.  index is the version index the engine holds for
\* the service named by the updates: an update is applied only when it
\* carries that index, and applying it moves the index on.
NoRace == [index |-> W("7"), slot |-> [i \in Slots |-> IdleSlot]]

\* The index after the engine applied an update.
NextIndex(v) == IF v = W("7") THEN W("8") ELSE W("9")

\* The engine's answer to an update that carries a stale index.
OutOfSequence == <<"rpc error: update out of sequence">>

\* A faulty end of the handler that reports success whatever the engine
\* said.
UpdateAnswerSwallowed(result) == Resp(200, Json(<<>>))

\* res.json(response) after service.update resolved; in the catch,
\* res.status(500).json({ message: error.message })
UpdateAnswer(result) ==
    IF result = "ok" THEN Resp(200, Json(<<>>))
    ELSE Resp(500, Json([message |-> OutOfSequence]))

\* The places of the update requests in a sequence of engine requests.
UpdatesIn(cs) == {k \in 1..Len(cs) : cs[k].op = "update"}

\* router.post('/:version?/services/:id/update') up to the await of
\* service.update: the ownership check, the validation and the probe run,
\* and the update is handed to the engine once.  A request that is refused
\* before is answered at once.
RaceBegin(s, i) ==
    /\ pc = "idle"
    /\ race.slot[i].state = "idle"
    /\ \E mp \in Offered(s, "serviceUpdate"), p \in DOMAIN cfg, hd \in s.headers,
         b \in s.services, pr \in s.probes, v \in s.versions :
        LET r == WithVersion(Request(p, mp, hd, b, pr), v)
            out == HandleServiceUpdate(p, r, Id(r))
            sends == UpdatesIn(out.calls) # {}
        IN  /\ p \notin down
            /\ ~out.crash
            /\ race' = [race EXCEPT !.slot[i] =
                    [state |-> IF sends THEN "sending" ELSE "answered",
                     r |-> <<r>>,
                     calls |-> out.calls,
                     sent |-> Cardinality(UpdatesIn(out.calls)),
                     result |-> "none",
                     resp |-> IF sends THEN NoResponse ELSE out.resp,
                     beside |-> race.slot[3 - i].state]]
    /\ UNCHANGED <<cfg, engine, pc, req, calls, resp, origin, served, down, failing, stream, gap, www>>

\* The engine takes the update of slot i: applied when it carries the
\* index the engine holds, refused otherwise.
RaceApply(i) ==
    /\ race.slot[i].state = "sending"
    /\ LET c == race.slot[i].calls[Len(race.slot[i].calls)]
           p == race.slot[i].r[1].proxy
           applied == c.body.version = race.index
       IN  /\ race' = [race EXCEPT
                         !.index = IF applied THEN NextIndex(@) ELSE @,
                         !.slot[i].state = "applied",
                         !.slot[i].result = IF applied THEN "ok" ELSE "error"]
           /\ engine' = IF applied THEN EngineUpdateService(p, c.id, c.body, c.headers).engine
                        ELSE engine
           /\ origin' = IF applied THEN EngineUpdateService(p, c.id, c.body, c.headers).origin
                        ELSE origin
    /\ UNCHANGED <<cfg, pc, req, calls, resp, served, down, failing, stream, gap, www>>

\* The engine's answer resumes the handler of slot i, which answers its
\* client.
RaceAnswer(i) ==
    /\ race.slot[i].state = "applied"
    /\ race' = [race EXCEPT
                  !.slot[i].state = "answered",
                  !.slot[i].resp = UpdateAnswer(race.slot[i].result)]
    /\ UNCHANGED <<cfg, engine, pc, req, calls, resp, origin, served, down, failing, stream, gap, www>>

----------------------------------------------------------------------------
(* The end of a request *)

\* No write is waiting.  write holds the engine request the handler has
\* decided on, seen the engine as the checks of the handler inspected it,
\* at the engine as the write found it, resp the answer the handler gives
\* when the engine accepts the write.
NoGap == [write |-> <<>>, seen |-> <<>>, at |-> <<>>, resp |-> NoResponse]

\* The response is out; the proxy keeps nothing of the request.
NoRequest == Request(0, [method |-> "", path |-> <<>>], NoHeaders, NoBody, "200")

Finish ==
    /\ pc = "done"
    /\ pc' = "idle"
    /\ req' = NoRequest
    /\ calls' = <<>>
    /\ resp' = NoResponse
    /\ stream' = NoStream
    /\ gap' = NoGap
    /\ UNCHANGED <<cfg, engine, origin, served, down, failing, race, www>>

----------------------------------------------------------------------------
(* Configurations, engines and scopes                                      *)

\* The configuration of a proxy started with TENANT_NAME=tenant and every
\* other variable unset.
DefaultCfg(tenant) ==
    [tenantLabelValue |-> tenant,
     NAME_PREFIX |-> Missing,
     ONLY_KNOWN_REGISTRIES |-> FALSE,
     ALLOW_PORT_EXPOSE |-> FALSE,
     ALLOWED_VOLUME_TYPES |-> {"bind", "volume", "tmpfs", "npipe", "cluster"},
     ALLOWED_REGULAR_VOLUME_DRIVERS |-> {W("local")},
     SERVICE_ALLOW_LISTED_NETWORKS |-> {},
     registryAuthOverrides |-> <<>>]

\* A registry-auth file with credentials for the registry "reg" and an
\* anonymous entry for "anon".
StoredAuth ==
    [r \in {"reg", "anon"} |->
        IF r = "reg"
        THEN [anonymous |-> FALSE, username |-> "user", password |-> "pw",
              serveraddress |-> "reg"]
        ELSE [anonymous |-> TRUE, username |-> "undefined", password |-> "undefined",
              serveraddress |-> "undefined"]]

Labelled(v) == [Labels |-> [k \in {tenantLabel} |-> v]]

\* One resource of tenant a named "a" and one of tenant b named "b".
TwoTenants == [n \in {A, B} |-> Labelled(n)]

EmptyEngine ==
    [service |-> <<>>, network |-> <<>>, secret |-> <<>>, config |-> <<>>,
     volume |-> <<>>, task |-> <<>>]

\* Both tenants hold a resource of every kind, and a task of their service.
SharedEngine ==
    [service |-> TwoTenants, network |-> TwoTenants, secret |-> TwoTenants,
     config |-> TwoTenants, volume |-> TwoTenants,
     task |-> <<[ID |-> A, ServiceID |-> A], [ID |-> B, ServiceID |-> B]>>]

\* Labels a client sends: none, or its own with the tenant label set to
\* another tenant's value.
ClientLabels ==
    [k \in {tenantLabel, "x"} |-> IF k = tenantLabel THEN B ELSE <<"1">>]

\* Secrets[i] is the SecretName of the i-th secret reference and
\* SecretIDs[i] its SecretID, and so for the configs; a client library
\* fills both in for the same secret.
ContainerSpec(image, labels, secrets, configs, mounts) ==
    [Image |-> image, Labels |-> labels, Secrets |-> secrets, Configs |-> configs,
     Mounts |-> mounts, SecretIDs |-> secrets, ConfigIDs |-> configs]

TaskTemplate(runtime, containerSpec, networks) ==
    [Runtime |-> runtime, ContainerSpec |-> containerSpec, Networks |-> networks]

ServiceSpec(name, labels, taskTemplate, endpointSpec) ==
    [Name |-> name, Labels |-> labels, TaskTemplate |-> taskTemplate,
     EndpointSpec |-> endpointSpec]

Mount(type, source, volumeOptions) ==
    [Type |-> type, Source |-> source, VolumeOptions |-> volumeOptions]

\* {"Name": name, "TaskTemplate": {"ContainerSpec": {"Image": image}}}
PlainService(name, image) ==
    ServiceSpec(name, NoLabels,
                <<TaskTemplate("", <<ContainerSpec(image, NoLabels, <<>>, <<>>, <<>>)>>, <<>>)>>,
                <<>>)

VolumeSpec(name, labels, driver, cvs) ==
    [Name |-> name, Labels |-> labels, Driver |-> driver, ClusterVolumeSpec |-> cvs]

Scope(prefixes, headers, ids, strays, bodies, volumes, services, images, probes) ==
    [prefixes |-> prefixes, headers |-> headers, ids |-> ids, strays |-> strays,
     bodies |-> bodies, volumes |-> volumes, services |-> services,
     images |-> images, probes |-> probes, versions |-> {Missing},
     rollbacks |-> {Missing}]

\* Paths no route is registered for.
Strays ==
    {<<W("swarm")>>, <<W("swarm"), W("unlockkey")>>, <<W("containers"), W("json")>>,
     <<W("services"), A, W("exec")>>, <<>>}

BA == <<"b", "a">>

NameInputs == {Missing, <<>>, A, AB, B}

\* A service named name with one mount.
MountService(name, mount) ==
    ServiceSpec(name, NoLabels,
                <<TaskTemplate("", <<ContainerSpec(<<"nginx">>, NoLabels, <<>>, <<>>,
                                                   <<mount>>)>>, <<>>)>>,
                <<>>)

\* A service named name that refers to one secret, one config and one
\* network.
RefService(name, secret, config, network) ==
    ServiceSpec(name, ClientLabels,
                <<TaskTemplate("", <<ContainerSpec(<<"reg", "app">>, ClientLabels,
                                                   <<secret>>, <<config>>, <<>>)>>,
                               <<network>>)>>,
                <<>>)

\* The service with the SecretID of its secret reference, or the ConfigID
\* of its config reference, set to id: a request written by hand.
WithSecretID(service, id) ==
    [service EXCEPT !.TaskTemplate[1].ContainerSpec[1].SecretIDs = <<id>>]

WithConfigID(service, id) ==
    [service EXCEPT !.TaskTemplate[1].ContainerSpec[1].ConfigIDs = <<id>>]

\* A service named name that refers to one network and to nothing else.
NetService(name, network) ==
    ServiceSpec(name, NoLabels,
                <<TaskTemplate("", <<ContainerSpec(<<"nginx">>, NoLabels, <<>>, <<>>, <<>>)>>,
                               <<network>>)>>,
                <<>>)

\* A service with a bind mount and then a mount of the volume "b".
TwoMounts ==
    ServiceSpec(AB, NoLabels,
                <<TaskTemplate("", <<ContainerSpec(<<"nginx">>, NoLabels, <<>>, <<>>,
                    <<Mount("bind", BA, <<>>),
                      Mount("volume", B, <<[Labels |-> NoLabels]>>)>>)>>, <<>>)>>,
                <<>>)

\* A service whose name lacks the prefix, that refers to the network, the
\* secret, the config and the volume "b" and publishes a port.
ManyFaults ==
    ServiceSpec(B, NoLabels,
                <<TaskTemplate("", <<ContainerSpec(<<"nginx">>, NoLabels, <<B>>, <<B>>,
                    <<Mount("volume", B, <<[Labels |-> NoLabels]>>)>>)>>, <<B>>)>>,
                <<[Ports |-> <<80>>]>>)

\* The service bodies of the scopes: plain ones of every name; mounts of
\* an owned, a foreign and a new volume, with and without VolumeOptions;
\* references to owned and foreign resources; no task template; a plugin
\* without a container spec; a published port.
ServiceInputs ==
    {PlainService(n, <<"nginx">>) : n \in NameInputs}
    \cup {MountService(AB, Mount("volume", src, <<[Labels |-> ClientLabels]>>)) :
            src \in {A, B, BA}}
    \cup {MountService(AB, Mount("volume", BA, <<>>)),
          MountService(AB, Mount("bind", BA, <<>>)),
          MountService(AB, Mount("image", BA, <<>>))}
    \cup {RefService(AB, A, A, A), RefService(AB, B, A, A), RefService(AB, A, B, A),
          RefService(AB, A, A, B)}
    \cup {ServiceSpec(AB, NoLabels, <<>>, <<>>),
          ServiceSpec(AB, NoLabels, <<TaskTemplate("plugin", <<>>, <<>>)>>, <<>>),
          [PlainService(AB, <<"nginx">>) EXCEPT !.EndpointSpec = <<[Ports |-> <<80>>]>>]}
    \cup {TwoMounts, ManyFaults}

BodyInputs == {[Name |-> n, Labels |-> l] : n \in NameInputs, l \in {NoLabels, ClientLabels}}

VolumeInputs ==
    {VolumeSpec(n, ClientLabels, W("local"), <<[AccessMode |-> <<>>]>>) : n \in NameInputs}
    \cup {VolumeSpec(AB, NoLabels, W("local"), <<>>),
          VolumeSpec(AB, NoLabels, W("nfs"), <<[AccessMode |-> <<>>]>>),
          VolumeSpec(AB, NoLabels, Missing, <<[AccessMode |-> <<>>]>>),
          VolumeSpec(AB, NoLabels, W("local"), <<[AccessMode |-> <<[Secrets |-> <<A>>]>>]>>),
          VolumeSpec(AB, NoLabels, W("local"), <<[AccessMode |-> <<[Secrets |-> <<B>>]>>]>>)}

\* Requests with and without a version segment, and under /swarm.
ScopeAll ==
    Scope({<<>>, <<W("v1.43")>>, <<W("swarm")>>},
          {HeadersNone, HeadersClient, HeadersEmpty},
          {A, B},
          Strays,
          BodyInputs, VolumeInputs, ServiceInputs,
          {<<"nginx">>, <<"reg", "app">>},
          {"200", "denied", "garbled", "error"})

\* The same with the volume a service's mount made the engine create.
ScopeVolumes == [ScopeAll EXCEPT !.ids = {A, B, BA}]

\* Requests of two tenants: no version segment, no registry headers.
ScopeTenants ==
    Scope({<<>>}, {HeadersNone}, {A, AB}, {},
          {[Name |-> n, Labels |-> l] : n \in {Missing, A, AB, B}, l \in {ClientLabels}},
          {VolumeSpec(n, ClientLabels, W("local"), <<[AccessMode |-> <<>>]>>) :
              n \in {A, AB, B}},
          {PlainService(n, <<"nginx">>) : n \in {A, AB, B}}
          \cup {MountService(AB, Mount("volume", A, <<[Labels |-> NoLabels]>>)),
                RefService(AB, A, A, A), NetService(AB, A)},
          {<<"nginx">>},
          {"200"})

\* Requests that name images of a registry with stored credentials, of one
\* with an anonymous entry, and of registries the store does not know.
ScopeRegistry ==
    Scope({<<>>, <<W("v1.43")>>},
          {HeadersNone, HeadersClient},
          {A, B},
          {},
          {}, {},
          {PlainService(n, img) : n \in {A, AB},
                                  img \in {<<"nginx">>, <<"reg", "app">>, <<"anon", "app">>,
                                            <<"other", "app">>}},
          {<<"nginx">>, <<"reg", "app">>, <<"anon", "app">>, <<"other", "app">>},
          {"200", "denied", "garbled", "error"})

----------------------------------------------------------------------------
(* A handler between its checks and its write.  A handler awaits every     *)
(* inspect of its checks and then the engine call that writes; while it    *)
(* awaits, the engine serves its other users.                              *)

\* The secrets and configs a service body refers to, each under its kind.
ReferencesOf(body) ==
    IF body.TaskTemplate = <<>> THEN {}
    ELSE LET cs == ContainerSpecOf(body.TaskTemplate)
         IN  {<<"secret", ListOf(cs, "Secrets")[i]>> : i \in 1..Len(ListOf(cs, "Secrets"))}
             \cup {<<"config", ListOf(cs, "Configs")[i]>> : i \in 1..Len(ListOf(cs, "Configs"))}
             \cup {<<"network", body.TaskTemplate[1].Networks[i]>> :
                      i \in 1..Len(body.TaskTemplate[1].Networks)}

WriteOps == {"create", "update", "remove"}

\* A request of handler h runs up to its write: the checks are made, the
\* inspects are out, and the write is decided on.  A request that is
\* refused is answered at once.
GapBegin(s, h, bodies, handle(_, _)) ==
    /\ pc = "idle"
    /\ served < MaxRequests
    /\ \E mp \in Offered(s, h), p \in DOMAIN cfg, hd \in s.headers, b \in bodies :
        LET r == Request(p, mp, hd, b, "200")
            out == handle(p, r)
            w == {i \in 1..Len(out.calls) : out.calls[i].op \in WriteOps}
        IN  IF w = {} THEN Serve(r, out)
            ELSE /\ p \notin down
                 /\ pc' = "writing"
                 /\ req' = r
                 /\ calls' = SubSeq(out.calls, 1, MinOf(w) - 1)
                 /\ served' = served + 1
                 /\ gap' = [write |-> <<out.calls[MinOf(w)]>>, seen |-> <<engine>>,
                            at |-> <<>>, resp |-> out.resp]
                 /\ UNCHANGED <<cfg, engine, resp, origin, down, failing, stream, race, www>>

\* Another user of the engine deletes or re-labels a service or a secret
\* while the handler awaits.
Interfere ==
    /\ pc = "writing"
    /\ \E kind \in {"service", "secret"} :
       \E id \in DOMAIN engine[kind] :
          \/ engine' = EngineRemove(kind, id)
          \/ \E v \in {A, B} :
                /\ engine[kind][id] # Labelled(v)
                /\ engine' = EnginePut(kind, id, Labelled(v))
    /\ UNCHANGED <<cfg, pc, req, calls, resp, origin, served, down, failing, stream,
                   race, gap, www>>

\* The engine takes the write: it removes or updates the resource that is
\* there now, or creates the one that is not, a service only with
\* references that exist; otherwise it answers with an error, which the
\* handler turns into 500.
GapApply ==
    /\ pc = "writing"
    /\ gap.write # <<>>
    /\ LET c == gap.write[1]
           name == IF c.op = "create" THEN c.body.Name ELSE c.id
           ok == /\ IF c.op = "create" THEN ~Exists(c.kind, name) ELSE Exists(c.kind, name)
                 /\ (c.kind = "service" /\ c.op \in {"create", "update"}) =>
                        \A x \in ReferencesOf(c.body) : Exists(x[1], x[2])
       IN  /\ engine' = IF ~ok THEN engine
                        ELSE IF c.op = "remove" THEN EngineRemove(c.kind, name)
                        ELSE EnginePut(c.kind, name, [Labels |-> c.body.Labels])
           /\ origin' = IF ~ok THEN origin
                        ELSE IF c.op = "remove" THEN OriginDrop(c.kind, name)
                        ELSE IF c.op = "create" THEN OriginPut(req.proxy, c.kind, name)
                        ELSE origin
           /\ calls' = Append(calls, [c EXCEPT !.res = IF ok THEN "ok" ELSE "error"])
           /\ resp' = IF ok THEN gap.resp ELSE Resp(500, Text(<<"engine error">>))
    /\ pc' = "done"
    /\ gap' = [gap EXCEPT !.write = <<>>, !.at = <<engine>>]
    /\ UNCHANGED <<cfg, req, served, down, failing, stream, race, www>>

----------------------------------------------------------------------------
(* The launcher, bin/www *)

\* The launcher after its last statement: the server listens, no
\* connection was accepted, no signal was received.  sockets is the
\* registry and nextSocketId its counter; closed holds the connections
\* that have emitted 'close', destroyed those whose destroy() was called;
\* timers holds the pending timeouts, each with the counter it will pass
\* on and its place in its countdown; closeCbs the callbacks given to
\* server.close, each with the error it will be called with.
Launched ==
    [sockets |-> {}, nextSocketId |-> 0, closed |-> {}, destroyed |-> {},
     listening |-> TRUE, signals |-> <<>>, timers |-> <<>>, closeCbs |-> <<>>,
     exited |-> FALSE, exitCode |-> 0]

\* waitForSocketsToClose(counter), as the step-th call of its countdown:
\* with a counter above zero it sets the next timeout, at zero it destroys
\* every socket of the registry.
waitForSocketsToCloseNoForce(w, counter, step) ==
    IF counter > 0
    THEN [w EXCEPT !.timers = Append(@, [counter |-> counter - 1, step |-> step + 1])]
    ELSE w

waitForSocketsToClose(w, counter, step) ==
    IF counter > 0
    THEN [w EXCEPT !.timers = Append(@, [counter |-> counter - 1, step |-> step + 1])]
    ELSE [w EXCEPT !.destroyed = @ \cup w.sockets]

\* shutdown(): the countdown starts, and server.close stops the server from
\* listening and keeps the callback for the server's 'close' event; a
\* server that does not listen any more will call it with an error.  Some
\* builds of node also destroy connections that are idle at that moment:
\* idle is any set of open connections.
shutdown(w, idle) ==
    LET counting == waitForSocketsToClose(w, Countdown, 0)
    IN  [counting EXCEPT !.listening = FALSE,
                         !.closeCbs = Append(@, IF w.listening THEN "ok" ELSE "error"),
                         !.destroyed = @ \cup idle]

\* server.on("connection"): the socket gets the next id of the registry.
OnConnection ==
    /\ ~www.exited
    /\ www.listening
    /\ www.nextSocketId < MaxSockets
    /\ www' = [www EXCEPT !.sockets = @ \cup {www.nextSocketId},
                          !.nextSocketId = @ + 1]
    /\ UNCHANGED <<cfg, engine, pc, req, calls, resp, origin, served, down, failing,
                   stream, race, gap>>

\* socket.once("close"): a connection ends, by its client or after its
\* destroy(), and leaves the registry.
OnSocketClose ==
    /\ ~www.exited
    /\ \E socketId \in (0..(www.nextSocketId - 1)) \ www.closed :
          www' = [www EXCEPT !.sockets = @ \ {socketId},
                             !.closed = @ \cup {socketId}]
    /\ UNCHANGED <<cfg, engine, pc, req, calls, resp, origin, served, down, failing,
                   stream, race, gap>>

\* A destroyed socket emits 'close'.
OnDestroyedClose ==
    /\ ~www.exited
    /\ \E socketId \in www.destroyed \ www.closed :
          www' = [www EXCEPT !.sockets = @ \ {socketId},
                             !.closed = @ \cup {socketId}]
    /\ UNCHANGED <<cfg, engine, pc, req, calls, resp, origin, served, down, failing,
                   stream, race, gap>>

\* process.on("SIGINT") and process.on("SIGTERM")
OnSignal ==
    /\ ~www.exited
    /\ Len(www.signals) < MaxSignals
    /\ \E sig \in {"SIGINT", "SIGTERM"}, idle \in SUBSET www.sockets :
          www' = [shutdown(www, idle) EXCEPT !.signals = Append(@, sig)]
    /\ UNCHANGED <<cfg, engine, pc, req, calls, resp, origin, served, down, failing,
                   stream, race, gap>>

\* The timeout that is due first fires.
OnTimeout ==
    /\ ~www.exited
    /\ www.timers # <<>>
    /\ www' = waitForSocketsToClose([www EXCEPT !.timers = Tail(@)],
                                    Head(www.timers).counter, Head(www.timers).step)
    /\ UNCHANGED <<cfg, engine, pc, req, calls, resp, origin, served, down, failing,
                   stream, race, gap>>

\* The server's 'close' event: it does not listen and its last connection
\* has ended.  The first callback ends the process.
onServerClosed ==
    /\ ~www.exited
    /\ ~www.listening
    /\ www.closeCbs # <<>>
    /\ (0..(www.nextSocketId - 1)) \ www.closed = {}
    /\ www' = [www EXCEPT !.exited = TRUE,
                          !.exitCode = IF Head(www.closeCbs) = "error" THEN 1 ELSE 0]
    /\ UNCHANGED <<cfg, engine, pc, req, calls, resp, origin, served, down, failing,
                   stream, race, gap>>

----------------------------------------------------------------------------
(* Specifications                                                          *)

InitWith(cfgs, engines) ==
    /\ cfg \in cfgs
    /\ engine \in engines
    /\ pc = "idle"
    /\ req = NoRequest
    /\ calls = <<>>
    /\ resp = NoResponse
    /\ origin = <<>>
    /\ served = 0
    /\ down = {}
    /\ failing = {}
    /\ stream = NoStream
    /\ race = NoRace
    /\ gap = NoGap
    /\ www = Launched

\* One proxy of tenant "a" in front of an engine that tenant "b" uses too.
Init == InitWith({[p \in {1} |-> DefaultCfg(A)]}, {SharedEngine})

Next ==
    \/ Ping(ScopeAll) \/ Version(ScopeAll) \/ Nodes(ScopeAll) \/ Node(ScopeAll)
    \/ Info(ScopeAll) \/ Distribution(ScopeAll)
    \/ ServiceCreate(ScopeAll) \/ ServiceUpdate(ScopeAll) \/ ServiceList(ScopeAll)
    \/ ServiceInspect(ScopeAll) \/ ServiceDelete(ScopeAll) \/ ServiceLogs(ScopeAll)
    \/ TaskList(ScopeAll) \/ TaskInspect(ScopeAll) \/ TaskLogs(ScopeAll)
    \/ NetworkCreate(ScopeAll) \/ NetworkList(ScopeAll) \/ NetworkDelete(ScopeAll)
    \/ NetworkInspect(ScopeAll)
    \/ SecretCreate(ScopeAll) \/ SecretList(ScopeAll) \/ SecretDelete(ScopeAll)
    \/ SecretInspect(ScopeAll) \/ SecretUpdate(ScopeAll)
    \/ ConfigCreate(ScopeAll) \/ ConfigList(ScopeAll) \/ ConfigDelete(ScopeAll)
    \/ ConfigInspect(ScopeAll) \/ ConfigUpdate(ScopeAll)
    \/ VolumeCreate(ScopeAll) \/ VolumeList(ScopeAll) \/ VolumeDelete(ScopeVolumes)
    \/ VolumeInspect(ScopeVolumes) \/ VolumeUpdate(ScopeVolumes)
    \/ Unrouted(ScopeAll)
    \/ Finish

Spec == Init /\ [][Next]_vars

\* Two proxies in front of one engine that starts empty: tenant "a" with
\* the default name prefix, and tenant "b" with NAME_PREFIX=ab and the
\* network "a" on its allow-list.
TenantsCfg ==
    [p \in {1, 2} |->
        IF p = 1 THEN DefaultCfg(A)
        ELSE [DefaultCfg(B) EXCEPT !.NAME_PREFIX = AB,
                                   !.SERVICE_ALLOW_LISTED_NETWORKS = {A}]]

InitTenants == InitWith({TenantsCfg}, {EmptyEngine})

NextTenants ==
    \/ ServiceCreate(ScopeTenants) \/ ServiceUpdate(ScopeTenants)
    \/ ServiceList(ScopeTenants) \/ ServiceInspect(ScopeTenants)
    \/ ServiceDelete(ScopeTenants)
    \/ NetworkCreate(ScopeTenants) \/ NetworkList(ScopeTenants)
    \/ NetworkDelete(ScopeTenants) \/ NetworkInspect(ScopeTenants)
    \/ SecretCreate(ScopeTenants) \/ SecretList(ScopeTenants)
    \/ SecretDelete(ScopeTenants) \/ SecretInspect(ScopeTenants)
    \/ SecretUpdate(ScopeTenants)
    \/ ConfigCreate(ScopeTenants) \/ ConfigList(ScopeTenants)
    \/ ConfigDelete(ScopeTenants) \/ ConfigInspect(ScopeTenants)
    \/ ConfigUpdate(ScopeTenants)
    \/ VolumeCreate(ScopeTenants) \/ VolumeList(ScopeTenants)
    \/ VolumeDelete(ScopeTenants) \/ VolumeInspect(ScopeTenants)
    \/ VolumeUpdate(ScopeTenants)
    \/ Finish

SpecTenants == InitTenants /\ [][NextTenants]_vars

\* One proxy started with ONLY_KNOWN_REGISTRIES=true and a registry-auth
\* file.
RegistryCfg ==
    [p \in {1} |-> [DefaultCfg(A) EXCEPT !.ONLY_KNOWN_REGISTRIES = TRUE,
                                         !.registryAuthOverrides = StoredAuth]]

InitRegistry == InitWith({RegistryCfg}, {SharedEngine})

NextRegistry ==
    \/ Distribution(ScopeRegistry)
    \/ ServiceCreate(ScopeRegistry)
    \/ ServiceUpdate(ScopeRegistry)
    \/ Finish

SpecRegistry == InitRegistry /\ [][NextRegistry]_vars

\* A proxy started with ALLOW_PORT_EXPOSE unset, or with ALLOW_PORT_EXPOSE=1.
PortsCfg ==
    {[p \in {1} |-> DefaultCfg(A)],
     [p \in {1} |-> [DefaultCfg(A) EXCEPT !.ALLOW_PORT_EXPOSE = TRUE]]}

\* An endpoint spec with one published port.
OnePort == <<[Ports |-> <<80>>]>>

\* Service requests with and without published ports: a plain service, one
\* with an empty list of ports, one with a port, an update without a task
\* template, and services that fail an earlier check.
ScopePorts ==
    Scope({<<>>}, {HeadersNone}, {A, B}, {}, {}, {},
          {PlainService(AB, <<"nginx">>),
           [PlainService(AB, <<"nginx">>) EXCEPT !.EndpointSpec = <<[Ports |-> <<>>]>>],
           [PlainService(AB, <<"nginx">>) EXCEPT !.EndpointSpec = OnePort],
           ServiceSpec(AB, NoLabels, <<>>, OnePort),
           [TwoMounts EXCEPT !.EndpointSpec = OnePort],
           ManyFaults},
          {<<"nginx">>},
          {"200", "denied"})

InitPorts == InitWith(PortsCfg, {SharedEngine})

NextPorts ==
    \/ ServiceCreate(ScopePorts)
    \/ ServiceUpdate(ScopePorts)
    \/ ServiceInspect(ScopePorts)
    \/ Finish

SpecPorts == InitPorts /\ [][NextPorts]_vars

\* Updates of the resources of both tenants that carry ?version=7 or
\* ?version=8, with and without a version segment in the path.
ScopeUpdates ==
    [Scope({<<>>, <<W("v1.43")>>}, {HeadersNone, HeadersClient}, {A, B}, {},
           {[Name |-> AB, Labels |-> l] : l \in {NoLabels, ClientLabels}},
           {},
           {PlainService(AB, <<"nginx">>), ServiceSpec(AB, NoLabels, <<>>, <<>>),
            MountService(AB, Mount("volume", A, <<[Labels |-> NoLabels]>>))},
           {<<"nginx">>},
           {"200", "denied"})
     EXCEPT !.versions = {W("7"), W("8")}, !.rollbacks = {Missing, W("previous")}]

InitUpdates == InitWith({[p \in {1} |-> DefaultCfg(A)]}, {SharedEngine})

NextUpdates ==
    \/ ServiceUpdate(ScopeUpdates)
    \/ SecretUpdate(ScopeUpdates)
    \/ ConfigUpdate(ScopeUpdates)
    \/ VolumeUpdate(ScopeUpdates)
    \/ Finish

SpecUpdates == InitUpdates /\ [][NextUpdates]_vars

\* A proxy with the default mount types, and one whose ALLOWED_VOLUME_TYPES
\* is "volume,image": it lists a type outside the known set and leaves out
\* bind.
ValidationCfg ==
    {[p \in {1} |-> DefaultCfg(A)],
     [p \in {1} |-> [DefaultCfg(A) EXCEPT !.ALLOWED_VOLUME_TYPES = {"volume", "image"}]]}

\* A service whose first mount names a new volume and has no VolumeOptions,
\* and that publishes a port.
BareMountAndPort ==
    [MountService(AB, Mount("volume", BA, <<>>)) EXCEPT !.EndpointSpec = OnePort]

\* Creates and updates that fail each check of the validation, and ones
\* that pass: the bodies of ScopeAll, a cluster mount, a mount of an unknown
\* type after a bind mount, a task template of runtime attachment, secret
\* and config references whose name and ID differ.
ScopeValidation ==
    Scope({<<>>}, {HeadersNone}, {A, B}, {},
          BodyInputs, VolumeInputs,
          ServiceInputs
          \cup {BareMountAndPort,
                WithSecretID(RefService(AB, A, A, A), B),
                WithConfigID(RefService(AB, A, A, A), B),
                ServiceSpec(AB, NoLabels, <<TaskTemplate("attachment", <<>>, <<>>)>>, <<>>),
                MountService(AB, Mount("cluster", BA, <<[Labels |-> NoLabels]>>)),
                MountService(AB, Mount("cluster", BA, <<>>)),
                MountService(AB, Mount("volume", A, <<>>)),
                MountService(AB, Mount("volume", BA, <<[Labels |-> NoLabels]>>))},
          {<<"nginx">>},
          {"200", "denied"})

InitValidation == InitWith(ValidationCfg, {SharedEngine})

NextValidation ==
    \/ ServiceCreate(ScopeValidation)
    \/ ServiceUpdate(ScopeValidation)
    \/ VolumeCreate(ScopeValidation)
    \/ NetworkCreate(ScopeValidation)
    \/ SecretCreate(ScopeValidation)
    \/ ConfigCreate(ScopeValidation)
    \/ Finish

SpecValidation == InitValidation /\ [][NextValidation]_vars

\* Proxied requests for the resources of both tenants, with and without a
\* version segment and client registry headers.
ScopeStream ==
    Scope({<<>>, <<W("v1.43")>>}, {HeadersNone, HeadersClient}, {A, B}, {},
          {}, {}, {}, {<<"nginx">>}, {"200"})

InitStream == InitWith({[p \in {1} |-> DefaultCfg(A)]}, {SharedEngine})

NextStream ==
    \/ Proxied(ScopeStream, "ping", Passthrough)
    \/ Proxied(ScopeStream, "version", Passthrough)
    \/ Proxied(ScopeStream, "nodes", Passthrough)
    \/ Proxied(ScopeStream, "node", Passthrough)
    \/ Proxied(ScopeStream, "info", Passthrough)
    \/ Proxied(ScopeStream, "distribution", LAMBDA p, r : HandleDistribution(p, r, Id(r)))
    \/ Proxied(ScopeStream, "serviceLogs", LAMBDA p, r : HandleServiceLogs(p, r, Id(r)))
    \/ Proxied(ScopeStream, "taskLogs", LAMBDA p, r : HandleTaskLogs(p, r, Id(r)))
    \/ EngineResponds
    \/ EngineChunk
    \/ EngineEnds
    \/ ClientDisconnects
    \/ OnClose
    \/ EngineFailsEarly
    \/ EngineFailsLate
    \/ EngineGoesAway
    \/ Finish

SpecStream == InitStream /\ [][NextStream]_vars

\* The event loop runs every listener whose event is pending, and the
\* engine goes on answering a request it holds; nothing obliges the engine
\* to end a stream (logs that follow never end), the transport to fail or
\* the client to leave.
SpecStreamFair ==
    /\ SpecStream
    /\ WF_vars(OnClose)
    /\ WF_vars(EngineResponds)
    /\ WF_vars(EngineChunk)

\* The sets of kinds whose inspect the engine may fail: none, one kind,
\* every kind.
FaultSets ==
    {{}} \cup {{k} : k \in Kinds \cup {"task"}} \cup {Kinds \cup {"task"}}

\* The engine starts or stops answering inspects with an error.
EngineFault ==
    /\ pc = "idle"
    /\ \E ks \in FaultSets \ {failing} : failing' = ks
    /\ UNCHANGED <<cfg, engine, pc, req, calls, resp, origin, served, down, stream, race, gap, www>>

\* Requests for the resources of both tenants; services that refer to
\* resources of the tenant.
ScopeFaults ==
    Scope({<<>>}, {HeadersNone}, {A, B}, {},
          {[Name |-> AB, Labels |-> NoLabels]},
          {VolumeSpec(AB, NoLabels, W("local"), <<[AccessMode |-> <<[Secrets |-> <<A>>]>>]>>)},
          {PlainService(AB, <<"nginx">>), RefService(AB, A, A, A),
           MountService(AB, Mount("volume", A, <<[Labels |-> NoLabels]>>)),
           MountService(AB, Mount("volume", B, <<[Labels |-> NoLabels]>>))},
          {<<"nginx">>},
          {"200"})

InitFaults == InitWith({[p \in {1} |-> DefaultCfg(A)]}, {SharedEngine})

NextFaults ==
    \/ EngineFault
    \/ ServiceCreate(ScopeFaults) \/ ServiceUpdate(ScopeFaults)
    \/ ServiceInspect(ScopeFaults) \/ ServiceDelete(ScopeFaults) \/ ServiceLogs(ScopeFaults)
    \/ TaskList(ScopeFaults) \/ TaskInspect(ScopeFaults) \/ TaskLogs(ScopeFaults)
    \/ NetworkDelete(ScopeFaults) \/ NetworkInspect(ScopeFaults)
    \/ SecretDelete(ScopeFaults) \/ SecretInspect(ScopeFaults) \/ SecretUpdate(ScopeFaults)
    \/ ConfigDelete(ScopeFaults) \/ ConfigInspect(ScopeFaults) \/ ConfigUpdate(ScopeFaults)
    \/ VolumeCreate(ScopeFaults) \/ VolumeDelete(ScopeFaults)
    \/ VolumeInspect(ScopeFaults) \/ VolumeUpdate(ScopeFaults)
    \/ Finish

SpecFaults == InitFaults /\ [][NextFaults]_vars

\* Updates of the services of both tenants that carry ?version=7, the
\* index the engine holds, or ?version=8.
ScopeRace ==
    [Scope({<<>>}, {HeadersNone}, {A, B}, {}, {}, {},
           {PlainService(AB, <<"nginx">>),
            [PlainService(AB, <<"nginx">>) EXCEPT !.Labels = ClientLabels],
            ServiceSpec(AB, NoLabels, <<>>, <<>>)},
           {<<"nginx">>},
           {"200", "denied"})
     EXCEPT !.versions = {W("7"), W("8")}]

InitRace == InitWith({[p \in {1} |-> DefaultCfg(A)]}, {SharedEngine})

NextRace ==
    \/ \E i \in Slots : RaceBegin(ScopeRace, i)
    \/ \E i \in Slots : RaceApply(i)
    \/ \E i \in Slots : RaceAnswer(i)

SpecRace == InitRace /\ [][NextRace]_vars

\* Another user of the engine re-labels a service or a secret while the
\* proxy serves no request.
Relabel ==
    /\ pc = "idle"
    /\ \E kind \in {"service", "secret"} :
       \E id \in DOMAIN engine[kind] :
       \E v \in {A, B} :
          /\ engine[kind][id] # Labelled(v)
          /\ engine' = EnginePut(kind, id, Labelled(v))
    /\ UNCHANGED <<cfg, pc, req, calls, resp, origin, served, down, failing, stream, race, gap, www>>

\* Requests for the resources "a", "b" and "ab"; creates of "ab".
ScopeRelabel ==
    Scope({<<>>}, {HeadersNone}, {A, B, AB}, {},
          {[Name |-> AB, Labels |-> NoLabels]}, {},
          {PlainService(AB, <<"nginx">>)}, {<<"nginx">>}, {"200"})

InitRelabel == InitWith({[p \in {1} |-> DefaultCfg(A)]}, {SharedEngine})

NextRelabel ==
    \/ Relabel
    \/ ServiceCreate(ScopeRelabel) \/ ServiceUpdate(ScopeRelabel)
    \/ ServiceInspect(ScopeRelabel) \/ ServiceDelete(ScopeRelabel)
    \/ ServiceLogs(ScopeRelabel) \/ ServiceList(ScopeRelabel)
    \/ SecretCreate(ScopeRelabel) \/ SecretUpdate(ScopeRelabel)
    \/ SecretInspect(ScopeRelabel) \/ SecretDelete(ScopeRelabel)
    \/ SecretList(ScopeRelabel)
    \/ Finish

SpecRelabel == InitRelabel /\ [][NextRelabel]_vars

\* Service creates and distribution lookups whose probe the engine answers
\* in every way it can, and proxied requests.
ScopeAnswered ==
    Scope({<<>>}, {HeadersNone}, {A, B}, {}, {}, {},
          {PlainService(AB, <<"nginx">>)},
          {<<"nginx">>},
          {"200", "denied", "garbled", "error", "aborted"})

NextAnswered ==
    \/ ServiceCreate(ScopeAnswered)
    \/ Distribution(ScopeAnswered)
    \/ Proxied(ScopeAnswered, "info", Passthrough)
    \/ Proxied(ScopeAnswered, "serviceLogs", LAMBDA p, r : HandleServiceLogs(p, r, Id(r)))
    \/ EngineResponds
    \/ EngineChunk
    \/ EngineEnds
    \/ EngineFailsEarly
    \/ EngineFailsLate
    \/ EngineGoesAway
    \/ Finish

\* The client stays; the engine eventually answers or fails each call, and
\* eventually ends or breaks off each response it began.
SpecAnswered ==
    /\ InitStream
    /\ [][NextAnswered]_vars
    /\ WF_vars(EngineResponds \/ EngineFailsEarly)
    /\ WF_vars(EngineEnds \/ EngineFailsLate \/ EngineGoesAway)

\* Deletes and updates of the services and secrets of both tenants, and
\* creates and updates of a service that refers to the tenant's secret.
ScopeGap ==
    Scope({<<>>}, {HeadersNone}, {A, B}, {}, {}, {}, {}, {<<"nginx">>}, {"200"})

GapServices == {PlainService(AB, <<"nginx">>), RefService(AB, A, A, A)}

InitGap == InitWith({[p \in {1} |-> DefaultCfg(A)]}, {SharedEngine})

NextGap ==
    \/ GapBegin(ScopeGap, "serviceDelete", {NoBody},
                LAMBDA p, r : HandleDelete(p, "service", Id(r)))
    \/ GapBegin(ScopeGap, "secretDelete", {NoBody},
                LAMBDA p, r : HandleDelete(p, "secret", Id(r)))
    \/ GapBegin(ScopeGap, "secretUpdate", {[Name |-> A, Labels |-> NoLabels]},
                LAMBDA p, r : HandleUpdate(p, "secret", Id(r), r))
    \/ GapBegin(ScopeGap, "serviceCreate", GapServices,
                LAMBDA p, r : HandleServiceCreate(p, r))
    \/ GapBegin(ScopeGap, "serviceUpdate", GapServices,
                LAMBDA p, r : HandleServiceUpdate(p, r, Id(r)))
    \/ Interfere
    \/ GapApply
    \/ Finish

SpecGap == InitGap /\ [][NextGap]_vars

\* Two proxies in front of one engine that holds a resource of every kind
\* for each tenant: tenant "a", and tenant "b" with the network "a" on its
\* allow-list.  The requests name the resource of "a", the one of "b" and
\* one that is not there, and the updates come with two bodies.
HiddenCfg ==
    [p \in {1, 2} |->
        IF p = 1 THEN DefaultCfg(A)
        ELSE [DefaultCfg(B) EXCEPT !.SERVICE_ALLOW_LISTED_NETWORKS = {A}]]

ScopeHidden ==
    Scope({<<>>}, {HeadersNone}, {A, B, AB}, {},
          {[Name |-> n, Labels |-> NoLabels] : n \in {A, B}},
          {},
          {PlainService(A, <<"nginx">>), RefService(B, B, B, B)},
          {<<"nginx">>},
          {"200"})

InitHidden == InitWith({HiddenCfg}, {SharedEngine})

NextHidden ==
    \/ ServiceInspect(ScopeHidden) \/ ServiceUpdate(ScopeHidden)
    \/ ServiceDelete(ScopeHidden) \/ ServiceLogs(ScopeHidden)
    \/ TaskInspect(ScopeHidden) \/ TaskLogs(ScopeHidden)
    \/ NetworkInspect(ScopeHidden) \/ NetworkDelete(ScopeHidden)
    \/ SecretInspect(ScopeHidden) \/ SecretUpdate(ScopeHidden)
    \/ SecretDelete(ScopeHidden)
    \/ ConfigInspect(ScopeHidden) \/ ConfigUpdate(ScopeHidden)
    \/ ConfigDelete(ScopeHidden)
    \/ VolumeInspect(ScopeHidden) \/ VolumeUpdate(ScopeHidden)
    \/ VolumeDelete(ScopeHidden)
    \/ Finish

SpecHidden == InitHidden /\ [][NextHidden]_vars

\* The launcher alone: connections come and go, signals arrive, timeouts
\* fire.
InitWww == InitWith({[p \in {1} |-> DefaultCfg(A)]}, {EmptyEngine})

NextWww ==
    \/ OnConnection
    \/ OnSocketClose
    \/ OnDestroyedClose
    \/ OnSignal
    \/ OnTimeout
    \/ onServerClosed

SpecWww == InitWww /\ [][NextWww]_vars

\* The event loop runs every timeout that is due and every 'close' event
\* that was emitted; no client has to close its connection.
SpecWwwFair ==
    /\ SpecWww
    /\ WF_vars(OnTimeout)
    /\ WF_vars(OnDestroyedClose)
    /\ WF_vars(onServerClosed)

----------------------------------------------------------------------------
(* Properties.  In a state with pc = "done", req is the request that was   *)
(* answered, calls the engine requests it caused and resp the answer.      *)

Done == pc = "done"

\* The handler the router gave the answered request to.
Handler == HandlerOf(req.method, req.path)

\* The places in a sequence of engine requests that hold one of the ops.
Places(cs, ops) == {i \in 1..Len(cs) : cs[i].op \in ops}

\* The kind a handler works on.
UpdateAndDeleteHandlers ==
    [serviceUpdate |-> "service", serviceDelete |-> "service",
     networkDelete |-> "network",
     secretUpdate |-> "secret", secretDelete |-> "secret",
     configUpdate |-> "config", configDelete |-> "config",
     volumeUpdate |-> "volume", volumeDelete |-> "volume"]

InspectHandlers ==
    [serviceInspect |-> "service", networkInspect |-> "network",
     secretInspect |-> "secret", configInspect |-> "config",
     volumeInspect |-> "volume"]

ListHandlers ==
    [serviceList |-> "service", networkList |-> "network", secretList |-> "secret",
     configList |-> "config", volumeList |-> "volume"]

CreateHandlers ==
    {"serviceCreate", "networkCreate", "secretCreate", "configCreate", "volumeCreate"}

\* An engine request that alters or removes a resource, and the resource:
\* the dial of the volume update names it at the end of its path.
MutatingOps == {"update", "remove", "dial"}

MutatedKind(c) == IF c.op = "dial" THEN "volume" ELSE c.kind

MutatedId(c) == IF c.op = "dial" THEN c.id[Len(c.id)] ELSE c.id

\* The name starts with the prefix, letter by letter.
HasPrefix(name, prefix) ==
    /\ Len(name) >= Len(prefix)
    /\ \A i \in 1..Len(prefix) : name[i] = prefix[i]

\* NAME_PREFIX, and the tenant label value when it is unset.
ConfiguredPrefix(p) ==
    IF cfg[p].NAME_PREFIX \in {Missing, <<>>} THEN cfg[p].tenantLabelValue
    ELSE cfg[p].NAME_PREFIX

\* The labels map the tenant label key to the tenant label value of p.
CarriesTenant(p, labels) ==
    /\ tenantLabel \in DOMAIN labels
    /\ labels[tenantLabel] = cfg[p].tenantLabelValue

----------------------------------------------------------------------------
(* C1 *)

\* One request of an update or delete handler, from its arrival to its
\* answer: the unprimed engine is the engine the oracle inspected.
C1Step ==
    (/\ pc = "idle"
     /\ pc' = "done"
     /\ HandlerOf(req'.method, req'.path) \in DOMAIN UpdateAndDeleteHandlers)
    => LET p == req'.proxy
           kind == UpdateAndDeleteHandlers[HandlerOf(req'.method, req'.path)]
           X == ParamId(req'.method, req'.path)
           muts == Places(calls', MutatingOps)
       IN  /\ \A i \in muts :
                /\ MutatedKind(calls'[i]) = kind
                /\ MutatedId(calls'[i]) = X
                /\ OracleSays(p, kind, X)
                /\ \E j \in 1..(i - 1) :
                      /\ calls'[j].op = "inspect"
                      /\ calls'[j].kind = kind
                      /\ calls'[j].id = X
                      /\ calls'[j].res = "ok"
           /\ ~OracleSays(p, kind, X) => resp'.status = 403 /\ muts = {}

\* C1: in every update or delete handler the mutating engine call for X
\* comes after an oracle inspection of X, in the same request, that said
\* "owned"; when the oracle says "not owned" the answer is 403 and no
\* mutating call is made.
C1_OracleBeforeMutation == [][C1Step]_vars

\* An owned secret was updated: the inspect, then the update.
C1_Witness ==
    /\ Done
    /\ Handler = "secretUpdate"
    /\ resp.status = 200
    /\ Len(calls) = 2
    /\ calls[1].op = "inspect"
    /\ calls[2].op = "update"
    /\ calls[2].id = calls[1].id

----------------------------------------------------------------------------
(* C2 *)

\* The spec an engine request carries bears the tenant label at every
\* labelable level.  The dial of the volume update carries no spec.
LabelledAtEveryLevel(p, c) ==
    /\ c.op # "dial"
    /\ CarriesTenant(p, c.body.Labels)
    /\ c.kind = "service" =>
         LET cs == ContainerSpecOf(c.body.TaskTemplate)
         IN  cs # <<>> =>
               /\ CarriesTenant(p, cs[1].Labels)
               /\ \A i \in 1..Len(cs[1].Mounts) :
                     cs[1].Mounts[i].Type \in {"volume", "cluster"} =>
                        /\ cs[1].Mounts[i].VolumeOptions # <<>>
                        /\ CarriesTenant(p, cs[1].Mounts[i].VolumeOptions[1].Labels)

\* C2: every create or update request that reaches the engine carries the
\* tenant label at every labelable level: the top-level Labels, and for
\* services the container spec's Labels and the VolumeOptions.Labels of
\* every mount of type volume or cluster.
C2_LabelsOnEveryWrite ==
    Done => \A i \in Places(calls, {"create", "update", "dial"}) :
                LabelledAtEveryLevel(req.proxy, calls[i])

\* The update of an owned volume reached the engine without a spec.
C2_Witness ==
    /\ Done
    /\ Handler = "volumeUpdate"
    /\ \E i \in Places(calls, {"dial"}) : calls[i].body = <<>> /\ MutatedId(calls[i]) = A

----------------------------------------------------------------------------
(* C3 *)

\* The x-registry-auth values the proxy builds from its stored credentials.
BuiltFromStore(p) ==
    {AuthHeader(cfg[p].registryAuthOverrides[r]) : r \in DOMAIN cfg[p].registryAuthOverrides}

\* C3: no engine request carries an x-registry-auth or x-registry-config
\* value of the client; the only such header that reaches the engine is an
\* x-registry-auth the proxy built from its stored credentials.  (A header
\* with an empty value is taken to carry no value.)
C3_NoClientRegistryHeaders ==
    Done => \A i \in 1..Len(calls) :
                /\ ~HeaderSet(calls[i].headers, "x-registry-config")
                /\ HeaderSet(calls[i].headers, "x-registry-auth") =>
                      calls[i].headers["x-registry-auth"] \in BuiltFromStore(req.proxy)

\* The update of an owned volume reached the engine with the client's
\* x-registry-auth and x-registry-config.
C3_Witness ==
    /\ Done
    /\ Handler = "volumeUpdate"
    /\ req.headers = HeadersClient
    /\ \E i \in Places(calls, {"dial"}) :
          /\ HeaderSet(calls[i].headers, "x-registry-auth")
          /\ calls[i].headers["x-registry-auth"] = ClientAuth
          /\ HeaderSet(calls[i].headers, "x-registry-config")

----------------------------------------------------------------------------
(* C4 *)

\* The resource exists and was created through a proxy of another tenant
\* than p's.
OfAnotherTenant(p, kind, id) ==
    /\ Exists(kind, id)
    /\ <<kind, id>> \in DOMAIN origin
    /\ cfg[origin[<<kind, id>>]].tenantLabelValue # cfg[p].tenantLabelValue

\* The exception: a network on p's allow-list may be listed and inspected.
AllowListedFor(p, kind, id) ==
    kind = "network" /\ id \in cfg[p].SERVICE_ALLOW_LISTED_NETWORKS

\* One request, from its arrival to its answer, against the resources the
\* engine held when it arrived.
C4Step ==
    (pc = "idle" /\ pc' = "done")
    => LET p == req'.proxy
           h == HandlerOf(req'.method, req'.path)
       IN  /\ h \in DOMAIN ListHandlers =>
                \A x \in resp'.body.data :
                    \/ ~OfAnotherTenant(p, ListHandlers[h], x.Name)
                    \/ AllowListedFor(p, ListHandlers[h], x.Name)
           /\ (/\ h \in DOMAIN InspectHandlers
               /\ OfAnotherTenant(p, InspectHandlers[h], ParamId(req'.method, req'.path))
               /\ ~AllowListedFor(p, InspectHandlers[h], ParamId(req'.method, req'.path)))
              => resp'.status \in {403, 404} /\ resp'.body.type = "text"
           /\ \A i \in Places(calls', MutatingOps) :
                ~OfAnotherTenant(p, MutatedKind(calls'[i]), MutatedId(calls'[i]))
           /\ \A kind \in Kinds : \A id \in DOMAIN engine[kind] :
                OfAnotherTenant(p, kind, id) =>
                    /\ id \in DOMAIN engine'[kind]
                    /\ engine'[kind][id] = engine[kind][id]

\* C4: with two proxies of distinct tenant label values in front of one
\* engine, a service, network, secret, config or volume created through
\* one proxy is never in a list response of the other, never returned by an
\* inspect through the other, and never updated or deleted through the
\* other (a network on the other's allow-list may be listed and inspected).
C4_TenantsIsolated == [][C4Step]_vars

\* Tenant "b" asked to delete a secret that tenant "a" created, and was
\* refused.
C4_Witness ==
    /\ Done
    /\ req.proxy = 2
    /\ Handler = "secretDelete"
    /\ Exists("secret", Id(req))
    /\ <<"secret", Id(req)>> \in DOMAIN origin
    /\ origin[<<"secret", Id(req)>>] = 1
    /\ resp.status = 403

----------------------------------------------------------------------------
(* C5 *)

\* C5: for a request of any method whose path begins with the segment
\* /swarm, with or without further segments, nothing is sent to the engine.
C5_SwarmNeverReachesEngine ==
    (Done /\ req.path # <<>> /\ req.path[1] = W("swarm")) => calls = <<>>

\* GET /swarm/services was served by the list of services, with "swarm" as
\* the version.
C5_Witness ==
    /\ Done
    /\ req.method = "GET"
    /\ req.path = <<W("swarm"), W("services")>>
    /\ resp.status = 200
    /\ Places(calls, {"list"}) # {}

----------------------------------------------------------------------------
(* C6 *)

\* The name a create request gives is there and starts with the prefix.
NameAdmitted(p, name) ==
    name \notin {Missing, <<>>} /\ HasPrefix(name, ConfiguredPrefix(p))

\* C6: a create reaches the engine only if the client's Name is non-empty
\* and starts with the configured name prefix; a request whose Name is
\* missing or lacks the prefix is answered 400 and no create call is made.
\* The prefix is the tenant label value when NAME_PREFIX is unset.
C6_CreateNeedsPrefixedName ==
    (Done /\ Handler \in CreateHandlers) =>
        /\ Places(calls, {"create"}) # {} => NameAdmitted(req.proxy, req.body.Name)
        /\ ~NameAdmitted(req.proxy, req.body.Name) =>
              resp.status = 400 /\ Places(calls, {"create"}) = {}

\* Tenant "a", whose NAME_PREFIX is unset, created a network whose name
\* starts with "a".
C6_Witness ==
    /\ Done
    /\ Handler = "networkCreate"
    /\ req.proxy = 1
    /\ cfg[1].NAME_PREFIX = Missing
    /\ resp.status = 201
    /\ Places(calls, {"create"}) # {}
    /\ HasPrefix(req.body.Name, cfg[1].tenantLabelValue)

----------------------------------------------------------------------------
(* C7 *)

\* C7: the oracle judges a resource owned if and only if its labels map the
\* tenant label key to the tenant label value and its name starts with the
\* name prefix.  An inspect answers 200 exactly when the oracle judged the
\* resource owned.
C7_OwnedIffLabelAndPrefix ==
    (/\ Done
     /\ Handler \in DOMAIN InspectHandlers
     /\ ~AllowListedFor(req.proxy, InspectHandlers[Handler], Id(req)))
    => (resp.status = 200 <=>
            /\ Exists(InspectHandlers[Handler], Id(req))
            /\ CarriesTenant(req.proxy, engine[InspectHandlers[Handler]][Id(req)].Labels)
            /\ HasPrefix(Id(req), ConfiguredPrefix(req.proxy)))

\* The volume "ba", which the engine made for the mount of a service of
\* tenant "a", was inspected through the proxy of tenant "a": judged owned,
\* with a name that does not start with "a".
C7_Witness ==
    /\ Done
    /\ Handler = "volumeInspect"
    /\ Id(req) = BA
    /\ resp.status = 200
    /\ CarriesTenant(req.proxy, engine.volume[BA].Labels)
    /\ ~HasPrefix(BA, ConfiguredPrefix(req.proxy))

----------------------------------------------------------------------------
(* C8 *)

\* The image a service request names.
ImageOf(body) == body.TaskTemplate[1].ContainerSpec[1].Image

\* C8: in service create and service update, a probe that returned another
\* status than 200 or failed in transport is answered 403 and the engine's
\* create/update is not called; the create/update is only called after a
\* probe of the spec's image that returned 200.
C8_ProbeGuardsServiceWrites ==
    (Done /\ Handler \in {"serviceCreate", "serviceUpdate"}) =>
        /\ (\E i \in Places(calls, {"probe"}) : calls[i].res # "200") =>
              resp.status = 403 /\ Places(calls, {"create", "update"}) = {}
        /\ \A w \in Places(calls, {"create", "update"}) :
              \E i \in Places(calls, {"probe"}) :
                  /\ i < w
                  /\ calls[i].res = "200"
                  /\ calls[i].id = <<W("distribution"), ImageOf(req.body), W("json")>>

\* A service create whose probe was answered with another status than 200
\* and a body that is not JSON: no response, and the process has ended.
C8_Witness ==
    /\ Done
    /\ Handler = "serviceCreate"
    /\ \E i \in Places(calls, {"probe"}) : calls[i].res = "garbled"
    /\ resp = NoResponse
    /\ req.proxy \in down
    /\ Places(calls, {"create"}) = {}

----------------------------------------------------------------------------
(* C9 *)

\* The registry-auth store has no entry for the registry of the image.
UnknownRegistry(p, image) ==
    (IF Len(image) < 2 THEN "docker.io" ELSE image[1])
        \notin DOMAIN cfg[p].registryAuthOverrides

\* The image of the answered request: the path parameter of a distribution
\* lookup, the container spec's image of a service request.
RequestImage == IF Handler = "distribution" THEN Id(req) ELSE ImageOf(req.body)

\* C9: with ONLY_KNOWN_REGISTRIES enabled and no entry in the store for the
\* image's registry, a service create, a service update and a distribution
\* lookup are answered 403, and neither the probe nor the create, update
\* or forward is sent to the engine.
C9_UnknownRegistryDenied ==
    (/\ Done
     /\ Handler \in {"distribution", "serviceCreate", "serviceUpdate"}
     /\ cfg[req.proxy].ONLY_KNOWN_REGISTRIES
     /\ UnknownRegistry(req.proxy, RequestImage))
    => /\ resp.status = 403
       /\ Places(calls, {"probe", "create", "update", "forward"}) = {}

\* A distribution lookup of an image of a registry the store does not know
\* was probed and forwarded.
C9_Witness ==
    /\ Done
    /\ Handler = "distribution"
    /\ cfg[req.proxy].ONLY_KNOWN_REGISTRIES
    /\ UnknownRegistry(req.proxy, Id(req))
    /\ resp.status = 200
    /\ Places(calls, {"probe"}) # {}
    /\ Places(calls, {"forward"}) # {}

----------------------------------------------------------------------------
(* C10 *)

\* The (method, path) pair is one of the routes setupRoutes registers, with
\* or without a leading segment for the version.
Enumerated(method, path) ==
    \E i \in 1..Len(Routes) : Routes[i].method = method /\ RouteMatches(Routes[i], path)

\* C10: a (method, path) pair that is none of the enumerated routes is
\* answered 404 and nothing is sent to the engine.
C10_AllowListOfRoutes ==
    (Done /\ ~Enumerated(req.method, req.path)) => resp.status = 404 /\ calls = <<>>

\* HEAD /services, which no route is registered for, was served by the
\* handler of GET /services.
C10_Witness ==
    /\ Done
    /\ req.method = "HEAD"
    /\ req.path = <<W("services")>>
    /\ ~Enumerated(req.method, req.path)
    /\ resp.status = 200
    /\ Places(calls, {"list"}) # {}

----------------------------------------------------------------------------
(* C11 *)

\* The ownership predicate on an element of a list: the element carries the
\* tenant label value of p; a network may be on p's allow-list instead.
ListedFor(p, kind, id) ==
    \/ CarriesTenant(p, engine[kind][id].Labels)
    \/ AllowListedFor(p, kind, id)

\* C11: the response of every list operation (services, networks, secrets,
\* configs, volumes) holds exactly the elements of the engine's list that
\* the ownership predicate judges owned (for networks: owned or on the
\* allow-list); no other element is in a list response.
C11_ListsExactlyOwned ==
    (Done /\ Handler \in DOMAIN ListHandlers) =>
        /\ resp.status = 200
        /\ resp.body.type = "json"
        /\ resp.body.data =
              {[Name |-> id, Labels |-> engine[ListHandlers[Handler]][id].Labels] :
                  id \in {x \in DOMAIN engine[ListHandlers[Handler]] :
                             ListedFor(req.proxy, ListHandlers[Handler], x)}}

\* Tenant "b" listed the secrets while the engine held one of tenant "a":
\* the list came back empty.
C11_Witness ==
    /\ Done
    /\ Handler = "secretList"
    /\ req.proxy = 2
    /\ \E id \in DOMAIN engine.secret : CarriesTenant(1, engine.secret[id].Labels)
    /\ resp.status = 200
    /\ resp.body.data = {}

----------------------------------------------------------------------------
(* C12 *)

\* The resource exists and the ownership predicate judges it owned.
JudgedOwned(p, kind, id) == Exists(kind, id) /\ ListedFor(p, kind, id)

\* The task exists and its service is judged owned.
TaskJudgedOwned(p, taskId) ==
    \E i \in 1..Len(engine.task) :
        /\ engine.task[i].ID = taskId
        /\ JudgedOwned(p, "service", engine.task[i].ServiceID)

\* The answered request is an inspect of a resource or task that the oracle
\* judges not owned.
InspectOfNotOwned ==
    /\ Done
    /\ \/ /\ Handler \in DOMAIN InspectHandlers
          /\ ~JudgedOwned(req.proxy, InspectHandlers[Handler], Id(req))
       \/ /\ Handler = "taskInspect"
          /\ ~TaskJudgedOwned(req.proxy, Id(req))

\* C12: an inspect of a resource the oracle judges not owned is answered 404
\* with the body 'Access denied: Secret is not owned.' or 'Access denied:
\* Config is not owned.' for secrets and configs, and 403 for services,
\* networks, volumes and tasks; the resource's data is not in the answer.
C12_InspectOfNotOwnedRefused ==
    InspectOfNotOwned =>
        /\ resp.body.type = "text"
        /\ Places(calls, {"forward"}) = {}
        /\ CASE Handler = "secretInspect" ->
                   /\ resp.status = 404
                   /\ resp.body.data = <<"Access denied: Secret is not owned.">>
             [] Handler = "configInspect" ->
                   /\ resp.status = 404
                   /\ resp.body.data = <<"Access denied: Config is not owned.">>
             [] OTHER -> resp.status = 403

\* The secret "b" of tenant "b" exists and was inspected through the proxy
\* of tenant "a": 404 with the message.
C12_Witness ==
    /\ Done
    /\ Handler = "secretInspect"
    /\ Id(req) = B
    /\ Exists("secret", B)
    /\ ~CarriesTenant(req.proxy, engine.secret[B].Labels)
    /\ resp = Resp(404, Text(<<"Access denied: Secret is not owned.">>))

----------------------------------------------------------------------------
(* C13 *)

ServiceHandlers == {"serviceCreate", "serviceUpdate"}

\* The mounts of the task template of a service body.
MountsOf(body) == ListOf(ContainerSpecOf(body.TaskTemplate), "Mounts")

\* A mount of type volume or cluster whose Source exists on the engine and
\* does not carry the tenant label value of p.
ForeignVolume(p, m) ==
    /\ m.Type \in {"volume", "cluster"}
    /\ Exists("volume", m.Source)
    /\ ~CarriesTenant(p, engine.volume[m.Source].Labels)

\* The answer that names the volume.
VolumeNotOwned(src) == Resp(403, Text(<<"Access denied: Volume ", src, " is not owned.">>))

\* No create or update was sent to the engine.
NothingWritten == Places(calls, {"create", "update"}) = {}

\* The answered service request passed what its handler checks before the
\* task template: the name for a create, the owner of the service for an
\* update.
ReachesTemplate ==
    IF Handler = "serviceCreate" THEN NameAdmitted(req.proxy, req.body.Name)
    ELSE JudgedOwned(req.proxy, "service", Id(req))

\* The kind/id exists and carries the tenant label value of p.
OwnedRef(p, kind, id) == Exists(kind, id) /\ CarriesTenant(p, engine[kind][id].Labels)

\* The task template is there with the container spec its runtime needs,
\* and its networks, secrets and configs pass their checks.
RefsAdmitted(p, body) ==
    /\ body.TaskTemplate # <<>>
    /\ \/ body.TaskTemplate[1].ContainerSpec # <<>>
       \/ body.TaskTemplate[1].Runtime \in {"plugin", "attachment"}
    /\ \A i \in 1..Len(body.TaskTemplate[1].Networks) :
          \/ body.TaskTemplate[1].Networks[i] \in cfg[p].SERVICE_ALLOW_LISTED_NETWORKS
          \/ OwnedRef(p, "network", body.TaskTemplate[1].Networks[i])
    /\ \A i \in 1..Len(ListOf(ContainerSpecOf(body.TaskTemplate), "Secrets")) :
          OwnedRef(p, "secret", ListOf(ContainerSpecOf(body.TaskTemplate), "Secrets")[i])
    /\ \A i \in 1..Len(ListOf(ContainerSpecOf(body.TaskTemplate), "Configs")) :
          OwnedRef(p, "config", ListOf(ContainerSpecOf(body.TaskTemplate), "Configs")[i])

\* The type of the mount is known and allowed.
MountTypeAdmitted(p, m) ==
    /\ m.Type \in {"bind", "volume", "tmpfs", "npipe", "cluster"}
    /\ m.Type \in cfg[p].ALLOWED_VOLUME_TYPES

\* The mount passes its turn of the loop over the mounts.
MountAdmitted(p, m) ==
    /\ MountTypeAdmitted(p, m)
    /\ m.Type \in {"volume", "cluster"} => ~ForeignVolume(p, m) /\ m.VolumeOptions # <<>>

\* The places of the mounts of the answered request that name a volume of
\* another owner.
ForeignMounts == {i \in 1..Len(MountsOf(req.body)) : ForeignVolume(req.proxy, MountsOf(req.body)[i])}

\* The checks that come before the first such mount all passed.
ReachesForeignMount ==
    /\ ReachesTemplate
    /\ RefsAdmitted(req.proxy, req.body)
    /\ MountTypeAdmitted(req.proxy, MountsOf(req.body)[MinOf(ForeignMounts)])
    /\ \A j \in 1..(MinOf(ForeignMounts) - 1) : MountAdmitted(req.proxy, MountsOf(req.body)[j])

----------------------------------------------------------------------------
(* C14 *)

\* The endpoint spec of the body declares at least one port.
DeclaresPorts(body) == body.EndpointSpec # <<>> /\ body.EndpointSpec[1].Ports # <<>>

PortsNotAllowed == Resp(403, Text(<<"Access denied: Exposing ports is not allowed.">>))

\* The task template passes its validation.
TemplateAdmitted(p, body) ==
    /\ RefsAdmitted(p, body)
    /\ \A i \in 1..Len(MountsOf(body)) : MountAdmitted(p, MountsOf(body)[i])

\* The answered service request passed every check that comes before the
\* endpoint spec; an update without a task template skips its validation.
ReachesEndpointSpec ==
    /\ ReachesTemplate
    /\ \/ Handler = "serviceUpdate" /\ req.body.TaskTemplate = <<>>
       \/ TemplateAdmitted(req.proxy, req.body)

\* C14, as stated: with ALLOW_PORT_EXPOSE disabled, a service create or
\* update whose EndpointSpec declares a port is answered 403 'Exposing ports
\* is not allowed' and no create or update reaches the engine; with
\* ALLOW_PORT_EXPOSE enabled, or without ports, the endpoint spec is
\* accepted.
C14_AsStated ==
    (Done /\ Handler \in ServiceHandlers) =>
        IF DeclaresPorts(req.body) /\ ~cfg[req.proxy].ALLOW_PORT_EXPOSE
        THEN resp = PortsNotAllowed /\ NothingWritten
        ELSE resp # PortsNotAllowed

\* C14: with ALLOW_PORT_EXPOSE disabled, a service create or update whose
\* EndpointSpec declares a port is refused and no create or update reaches
\* the engine; the answer is 403 'Exposing ports is not allowed' when the
\* checks that come before the endpoint spec pass.  With ALLOW_PORT_EXPOSE
\* enabled, or without ports, the endpoint spec is accepted: that answer is
\* never given, and a request with a container spec that passed the checks
\* before goes on to the permission probe.
C14_PortsRefusedWhenDisabled ==
    (Done /\ Handler \in ServiceHandlers) =>
        IF DeclaresPorts(req.body) /\ ~cfg[req.proxy].ALLOW_PORT_EXPOSE
        THEN /\ NothingWritten
             /\ resp.status \in {400, 403, 500}
             /\ ReachesEndpointSpec => resp = PortsNotAllowed
        ELSE /\ resp # PortsNotAllowed
             /\ (ReachesEndpointSpec /\ ContainerSpecOf(req.body.TaskTemplate) # <<>>)
                    => Places(calls, {"probe"}) # {}

\* With ALLOW_PORT_EXPOSE disabled, the update of an owned service that
\* carries no task template and publishes a port was answered 403.
C14_Witness ==
    /\ Done
    /\ Handler = "serviceUpdate"
    /\ ~cfg[req.proxy].ALLOW_PORT_EXPOSE
    /\ DeclaresPorts(req.body)
    /\ ReachesEndpointSpec
    /\ resp = PortsNotAllowed
    /\ NothingWritten

----------------------------------------------------------------------------
(* C15 *)

\* out is the client's labels with the tenant label key set to the tenant
\* label value of p: every other key and value of the client is kept, and
\* nothing else is added.
MergedWithTenant(p, client, out) ==
    /\ DOMAIN out = (DOMAIN client) \cup {tenantLabel}
    /\ out[tenantLabel] = cfg[p].tenantLabelValue
    /\ \A k \in (DOMAIN client) \ {tenantLabel} : out[k] = client[k]

----------------------------------------------------------------------------
(* C16 *)

\* The network exists, is on p's allow-list and does not carry p's tenant
\* label.
AllowListedOnly(p, id) ==
    /\ Exists("network", id)
    /\ id \in cfg[p].SERVICE_ALLOW_LISTED_NETWORKS
    /\ ~CarriesTenant(p, engine.network[id].Labels)

NetworkNotOwned(id) ==
    Resp(403, Text(<<"Access denied: ", "Network", " ", id, " is not owned.">>))

\* The networks the task template of a service body refers to.
NetworksOf(body) ==
    IF body.TaskTemplate = <<>> THEN {}
    ELSE {body.TaskTemplate[1].Networks[i] : i \in 1..Len(body.TaskTemplate[1].Networks)}

\* What the answer to a read or to a service request shows of such a
\* network: it is in the list, it is returned by its inspect, and a service
\* that refers to it is not refused for it and, when its other checks pass,
\* goes on to the permission probe.
AllowListedServed ==
    \A id \in DOMAIN engine.network :
        AllowListedOnly(req.proxy, id) =>
            /\ Handler = "networkList" =>
                  [Name |-> id, Labels |-> engine.network[id].Labels] \in resp.body.data
            /\ (Handler = "networkInspect" /\ Id(req) = id) =>
                  /\ resp.status = 200
                  /\ resp.body = Json(<<[Name |-> id, Labels |-> engine.network[id].Labels]>>)
            /\ (Handler \in ServiceHandlers /\ id \in NetworksOf(req.body)) =>
                  /\ resp # NetworkNotOwned(id)
                  /\ (/\ ReachesEndpointSpec
                      /\ ~DeclaresPorts(req.body)
                      /\ ContainerSpecOf(req.body.TaskTemplate) # <<>>)
                        => Places(calls, {"probe"}) # {}

\* One request, from its arrival to its answer: the unprimed engine holds
\* the networks as they were when the request arrived.
C16Step ==
    (pc = "idle" /\ pc' = "done") =>
        /\ AllowListedServed'
        /\ \A id \in DOMAIN engine.network :
              (/\ AllowListedOnly(req'.proxy, id)
               /\ HandlerOf(req'.method, req'.path) = "networkDelete"
               /\ ParamId(req'.method, req'.path) = id)
              => /\ resp'.status = 403
                 /\ Places(calls', {"remove"}) = {}
                 /\ engine'.network = engine.network

\* C16: a network that is named in SERVICE_ALLOW_LISTED_NETWORKS and does
\* not carry the tenant label can be listed, inspected and referred to from
\* a service's task template, but a delete request for it is always answered
\* 403 and no remove is sent to the engine.
C16_AllowListNeverForDelete == [][C16Step]_vars

\* Tenant "b", whose allow-list names the network "a" of tenant "a", asked
\* to delete it and was refused; the network is still there.
C16_Witness ==
    /\ Done
    /\ Handler = "networkDelete"
    /\ req.proxy = 2
    /\ Id(req) = A
    /\ AllowListedOnly(2, A)
    /\ resp.status = 403
    /\ Places(calls, {"remove"}) = {}

----------------------------------------------------------------------------
(* C17 *)

\* The engine requests hold an update or a remove of kind/id.
Reached(cs, kind, id) ==
    \E i \in Places(cs, MutatingOps) : MutatedKind(cs[i]) = kind /\ MutatedId(cs[i]) = id

\* What a service update needs besides an owned service: a task template
\* with a container spec that passes validation, no port that may not be
\* published, and a permission probe answered 200.
UpdateAdmitted(p, body, probe) ==
    /\ ContainerSpecOf(body.TaskTemplate) # <<>>
    /\ TemplateAdmitted(p, body)
    /\ ~(DeclaresPorts(body) /\ ~cfg[p].ALLOW_PORT_EXPOSE)
    /\ probe = "200"

\* One request of an update or delete handler as the claim states it: the
\* operation reaches the engine exactly when the oracle judged R owned.
C17StepAsStated ==
    (/\ pc = "idle"
     /\ pc' = "done"
     /\ HandlerOf(req'.method, req'.path) \in DOMAIN UpdateAndDeleteHandlers)
    => LET kind == UpdateAndDeleteHandlers[HandlerOf(req'.method, req'.path)]
           R == ParamId(req'.method, req'.path)
       IN  Reached(calls', kind, R) <=> OwnedRef(req'.proxy, kind, R)

\* C17, as stated: for every update or delete of a service, network,
\* secret, config or volume R, the operation reaches the engine if and only
\* if the oracle judged R owned immediately before, in the same request.
C17_AsStated == [][C17StepAsStated]_vars

\* One request of an update or delete handler; the unprimed engine is the
\* one the oracle inspected.
C17Step ==
    (/\ pc = "idle"
     /\ pc' = "done"
     /\ HandlerOf(req'.method, req'.path) \in DOMAIN UpdateAndDeleteHandlers)
    => LET h == HandlerOf(req'.method, req'.path)
           kind == UpdateAndDeleteHandlers[h]
           R == ParamId(req'.method, req'.path)
           owned == OwnedRef(req'.proxy, kind, R)
       IN  /\ Reached(calls', kind, R) => owned
           /\ h # "serviceUpdate" => (owned => Reached(calls', kind, R))
           /\ h = "serviceUpdate" =>
                 (Reached(calls', kind, R) <=>
                     owned /\ UpdateAdmitted(req'.proxy, req'.body, req'.probe))

\* C17: an update or delete of R reaches the engine only if the oracle
\* judged R owned immediately before, in the same request.  For a delete of
\* any kind and for an update of a secret, config or volume it reaches the
\* engine whenever the oracle judged R owned; the update of an owned service
\* reaches the engine exactly when its spec also passes validation and the
\* permission probe.
C17_MutationIffOwned == [][C17Step]_vars

\* The update of the owned service "a" with a valid spec and a probe
\* answered 200 reached the engine.
C17_Witness ==
    /\ Done
    /\ Handler = "serviceUpdate"
    /\ Id(req) = A
    /\ req.probe = "200"
    /\ resp.status = 200
    /\ Reached(calls, "service", A)

----------------------------------------------------------------------------
(* C18 *)

\* The engine's tasks whose ServiceID is a service judged owned.
VisibleTasks(p) ==
    {engine.task[i] : i \in {j \in 1..Len(engine.task) :
                                JudgedOwned(p, "service", engine.task[j].ServiceID)}}

\* C18: a task is visible through the proxy if and only if its parent
\* service is owned.  The task list returns exactly the engine's tasks whose
\* ServiceID is an owned service; task inspect and task logs are served
\* when the task's ServiceID is an owned service and are answered 403
\* otherwise.
C18_TaskVisibleIffServiceOwned ==
    /\ (Done /\ Handler = "taskList") =>
          resp.status = 200 /\ resp.body = Json(VisibleTasks(req.proxy))
    /\ (Done /\ Handler = "taskInspect") =>
          IF TaskJudgedOwned(req.proxy, Id(req))
          THEN /\ resp.status = 200
               /\ resp.body.type = "json"
               /\ resp.body.data \in {<<t>> : t \in VisibleTasks(req.proxy)}
               /\ resp.body.data[1].ID = Id(req)
          ELSE resp.status = 403 /\ resp.body.type = "text"
    /\ (Done /\ Handler = "taskLogs") =>
          IF TaskJudgedOwned(req.proxy, Id(req))
          THEN resp = Resp(200, Piped) /\ Places(calls, {"forward"}) # {}
          ELSE resp.status = 403 /\ Places(calls, {"forward"}) = {}

\* The logs of the task "b", whose service belongs to tenant "b", were asked
\* for through the proxy of tenant "a": 403, and nothing was forwarded.
C18_Witness ==
    /\ Done
    /\ Handler = "taskLogs"
    /\ Id(req) = B
    /\ \E i \in 1..Len(engine.task) :
          /\ engine.task[i].ID = B
          /\ Exists("service", engine.task[i].ServiceID)
          /\ ~CarriesTenant(req.proxy, engine.service[engine.task[i].ServiceID].Labels)
    /\ resp.status = 403
    /\ Places(calls, {"forward"}) = {}

----------------------------------------------------------------------------
(* C19 *)

\* The references of a service body in the order the validation takes them:
\* the networks, then the secrets, then the configs.
RefsOf(body) ==
    IF body.TaskTemplate = <<>> THEN <<>>
    ELSE [i \in 1..Len(body.TaskTemplate[1].Networks) |->
             [what |-> "Network", kind |-> "network", id |-> body.TaskTemplate[1].Networks[i]]]
         \o [i \in 1..Len(ListOf(ContainerSpecOf(body.TaskTemplate), "Secrets")) |->
             [what |-> "Secret", kind |-> "secret",
              id |-> ListOf(ContainerSpecOf(body.TaskTemplate), "Secrets")[i]]]
         \o [i \in 1..Len(ListOf(ContainerSpecOf(body.TaskTemplate), "Configs")) |->
             [what |-> "Config", kind |-> "config",
              id |-> ListOf(ContainerSpecOf(body.TaskTemplate), "Configs")[i]]]

\* A network whose Target is neither on the allow-list nor an owned network;
\* a secret or config that is not owned.
OffendingRef(p, ref) ==
    /\ ~(ref.kind = "network" /\ ref.id \in cfg[p].SERVICE_ALLOW_LISTED_NETWORKS)
    /\ ~OwnedRef(p, ref.kind, ref.id)

OffendingRefs ==
    {i \in 1..Len(RefsOf(req.body)) : OffendingRef(req.proxy, RefsOf(req.body)[i])}

\* The answer that names a reference.
RefNotOwned(ref) ==
    Resp(403, Text(<<"Access denied: ", ref.what, " ", ref.id, " is not owned.">>))

\* The answered service request passed what comes before the references:
\* the name or the owner of the service, and the container spec its runtime
\* needs.
ReachesRefs ==
    /\ ReachesTemplate
    /\ \/ ContainerSpecOf(req.body.TaskTemplate) # <<>>
       \/ req.body.TaskTemplate[1].Runtime \in {"plugin", "attachment"}

\* C19, as stated: a service create or update whose task template refers to
\* a network whose Target is neither on the allow-list nor an owned network,
\* or to a secret or config that is not owned, is answered 403 naming the
\* offending entity, and no create or update reaches the engine.
C19_AsStated ==
    (Done /\ Handler \in ServiceHandlers /\ OffendingRefs # {}) =>
        /\ \E i \in OffendingRefs : resp = RefNotOwned(RefsOf(req.body)[i])
        /\ NothingWritten

\* C19: a service create or update whose task template has such a reference
\* is refused and no create or update reaches the engine; when the checks
\* that come before the references pass, the answer is 403 naming the first
\* offending network, secret or config.
C19_ForeignRefsRefused ==
    (Done /\ Handler \in ServiceHandlers /\ OffendingRefs # {}) =>
        /\ NothingWritten
        /\ resp.status \in {400, 403, 500}
        /\ ReachesRefs => resp = RefNotOwned(RefsOf(req.body)[MinOf(OffendingRefs)])

\* A service create that refers to the secret "b" of tenant "b", and to a
\* network and a config of its own: 403 naming the secret.
C19_Witness ==
    /\ Done
    /\ Handler = "serviceCreate"
    /\ req.body = RefService(AB, B, A, A)
    /\ Exists("secret", B)
    /\ OffendingRefs = {2}
    /\ resp = Resp(403, Text(<<"Access denied: ", "Secret", " ", B, " is not owned.">>))
    /\ NothingWritten

----------------------------------------------------------------------------
(* C20 *)

\* The registry the image resolves to.
RegistryOf(image) == IF Len(image) < 2 THEN "docker.io" ELSE image[1]

\* The store holds credentials that are not anonymous for the registry of
\* the image.
HasStoredCredentials(p, image) ==
    /\ RegistryOf(image) \in DOMAIN cfg[p].registryAuthOverrides
    /\ ~cfg[p].registryAuthOverrides[RegistryOf(image)].anonymous

\* C20: for a distribution lookup whose image resolves to a registry with
\* stored credentials that are not anonymous and whose probe succeeds, the
\* request forwarded to the engine carries the stored credentials as its
\* x-registry-auth header and no auth header of the client.
C20_ForwardCarriesStoredCredentials ==
    (/\ Done
     /\ Handler = "distribution"
     /\ HasStoredCredentials(req.proxy, Id(req))
     /\ req.probe = "200")
    => /\ Places(calls, {"forward"}) # {}
       /\ \A i \in Places(calls, {"forward"}) :
             /\ HeaderSet(calls[i].headers, "x-registry-auth")
             /\ calls[i].headers["x-registry-auth"] =
                   AuthHeader(cfg[req.proxy].registryAuthOverrides[RegistryOf(Id(req))])
             /\ ~HeaderSet(calls[i].headers, "x-registry-config")

\* The lookup of an image of the registry "reg", whose credentials are
\* stored: the probe carried them and was answered 200, and the request
\* forwarded to the engine carries no x-registry-auth header.
C20_Witness ==
    /\ Done
    /\ Handler = "distribution"
    /\ Id(req) = <<"reg", "app">>
    /\ HasStoredCredentials(req.proxy, Id(req))
    /\ \E i \in Places(calls, {"probe"}) :
          /\ calls[i].res = "200"
          /\ HeaderSet(calls[i].headers, "x-registry-auth")
    /\ \E i \in Places(calls, {"forward"}) :
          "x-registry-auth" \notin DOMAIN calls[i].headers

----------------------------------------------------------------------------
(* C21 *)

\* The handlers of the update operations that take a version query
\* parameter.
VersionedUpdateHandlers ==
    {"serviceUpdate", "secretUpdate", "configUpdate", "volumeUpdate"}

\* The version an update request hands to the engine: a property of the
\* spec it carries; the dial of the volume update carries no spec and no
\* query string, so no version.
VersionReceived(c) == IF c.op = "dial" THEN Missing ELSE c.body.version

\* C21: for every update operation that takes a version query parameter
\* (service, secret, config and volume update), the version value the
\* engine receives with the update equals the version value the client
\* supplied, unchanged.
C21_VersionForwardedVerbatim ==
    (Done /\ Handler \in VersionedUpdateHandlers /\ req.query.version # Missing)
        => \A i \in Places(calls, {"update", "dial"}) :
              VersionReceived(calls[i]) = req.query.version

\* An owned volume is updated with ?version=7 and the update reaches the
\* engine.
C21_Witness ==
    /\ Done
    /\ Handler = "volumeUpdate"
    /\ req.query.version = W("7")
    /\ Places(calls, {"dial"}) # {}

----------------------------------------------------------------------------
(* C23 *)

\* The handlers of the create and update requests that are validated.
ValidatedHandlers == CreateHandlers \cup {"serviceUpdate"}

\* The mount fails a check the validation lists: its type is unknown or not
\* allowed, or it names a volume of another owner.
MountRefused(p, m) == ~MountTypeAdmitted(p, m) \/ ForeignVolume(p, m)

\* The service request fails a check the validation lists: the name of a
\* create, the container spec, a reference, a mount, the published ports.
\* An update without a task template has no template to validate.
ServiceRefused(p, h, body) ==
    \/ h = "serviceCreate" /\ ~NameAdmitted(p, body.Name)
    \/ /\ ~(h = "serviceUpdate" /\ body.TaskTemplate = <<>>)
       /\ \/ ~RefsAdmitted(p, body)
          \/ \E i \in 1..Len(MountsOf(body)) : MountRefused(p, MountsOf(body)[i])
    \/ DeclaresPorts(body) /\ ~cfg[p].ALLOW_PORT_EXPOSE

\* The secrets a volume spec names in its cluster-volume access mode.
VolumeSecrets(body) ==
    IF body.ClusterVolumeSpec = <<>> THEN <<>>
    ELSE IF body.ClusterVolumeSpec[1].AccessMode = <<>> THEN <<>>
    ELSE body.ClusterVolumeSpec[1].AccessMode[1].Secrets

\* The volume create fails a check the validation lists: the name, the
\* driver, a secret of the access mode.
VolumeRefused(p, body) ==
    \/ ~NameAdmitted(p, body.Name)
    \/ body.Driver \in {Missing, <<>>}
    \/ body.Driver \notin cfg[p].ALLOWED_REGULAR_VOLUME_DRIVERS
    \/ \E i \in 1..Len(VolumeSecrets(body)) : ~OwnedRef(p, "secret", VolumeSecrets(body)[i])

\* The validation of the answered create or update request fails.
ValidationFails ==
    CASE Handler \in ServiceHandlers -> ServiceRefused(req.proxy, Handler, req.body)
      [] Handler = "volumeCreate" -> VolumeRefused(req.proxy, req.body)
      [] OTHER -> ~NameAdmitted(req.proxy, req.body.Name)

\* A mount of type volume or cluster without a VolumeOptions object: the
\* loop over the mounts throws on it.
BareMount(body) ==
    \E i \in 1..Len(MountsOf(body)) :
        /\ MountsOf(body)[i].Type \in {"volume", "cluster"}
        /\ MountsOf(body)[i].VolumeOptions = <<>>

----------------------------------------------------------------------------
(* C22 *)

\* The handlers the claim names as streaming passthroughs.
StreamingHandlers == {"serviceLogs", "taskLogs", "ping", "distribution"}

\* The client of a streaming passthrough is gone while the proxy's request
\* to the engine is open.
ClientGoneMidStream ==
    /\ pc = "streaming"
    /\ Handler \in StreamingHandlers
    /\ stream.client = "gone"
    /\ stream.upstream = "open"

\* C22: for every streaming passthrough (service logs, task logs, ping,
\* distribution lookup), if the client disconnects while the engine's
\* response is still streaming, the engine-side request of that client is
\* eventually torn down and not left open.
C22_DisconnectTearsDownUpstream ==
    ClientGoneMidStream ~> stream.upstream # "open"

\* The client of a service-logs request left after the first chunk, its
\* 'close' event was handled, and the request to the engine is still open.
C22_Witness ==
    /\ ClientGoneMidStream
    /\ Handler = "serviceLogs"
    /\ ~stream.closing
    /\ Len(stream.sent) >= 1
    /\ Len(stream.wire) = 2

----------------------------------------------------------------------------
(* C24 *)

\* Slot i handed an update to the engine.
Issued(i) == race.slot[i].sent > 0

\* The version the update of slot i carries to the engine, and the service
\* it names.
IssuedVersion(i) == race.slot[i].calls[Len(race.slot[i].calls)].body.version

IssuedService(i) == race.slot[i].calls[Len(race.slot[i].calls)].id

\* Two updates of the same service that carry the same version are in
\* flight or answered.
SameVersionRace ==
    /\ Issued(1) /\ Issued(2)
    /\ IssuedService(1) = IssuedService(2)
    /\ IssuedVersion(1) = IssuedVersion(2)

\* C24: when two service-update requests for the same owned service that
\* carry the same version are processed concurrently, in any interleaving,
\* each issues its engine update at most once (nothing is retried), at most
\* one of them succeeds at the engine, and the client of the losing request
\* receives an error response that carries the engine's failure message,
\* not a success response.
C24_RacingUpdatesOneWins ==
    SameVersionRace =>
        /\ \A i \in Slots : race.slot[i].sent = 1
        /\ ~(race.slot[1].result = "ok" /\ race.slot[2].result = "ok")
        /\ \A i \in Slots :
              (race.slot[i].state = "answered" /\ race.slot[i].result = "error")
                  => /\ race.slot[i].resp.status = 500
                     /\ race.slot[i].resp.body = Json([message |-> OutOfSequence])

\* Both requests carried version 7 for the service "a"; the second arrived
\* while the update of the first was on its way to the engine, and its own
\* update was applied first: the first was answered 500 with the engine's
\* message.
C24_Witness ==
    /\ SameVersionRace
    /\ race.slot[2].beside = "sending"
    /\ IssuedService(1) = A
    /\ IssuedVersion(1) = W("7")
    /\ race.slot[1].state = "answered" /\ race.slot[2].state = "answered"
    /\ race.slot[2].result = "ok" /\ race.slot[2].resp.status = 200
    /\ race.slot[1].result = "error" /\ race.slot[1].resp.status = 500

----------------------------------------------------------------------------
(* C25 *)

ReadOnlyHandlers == {"ping", "version", "info", "nodes", "node"}

\* The chunks among what was written to the client.
ChunksOf(wire) == SelectSeq(wire, LAMBDA w : w.t = "chunk")

\* The engine's response as the client receives it when all of it is
\* copied: the status and headers, then every chunk.
EngineResponse ==
    <<WrittenHead(stream.head[1])>> \o
    [n \in 1..Len(stream.sent) |-> WrittenChunk(stream.sent[n])]

----------------------------------------------------------------------------
(* C30 *)

\* The transport to the engine failed after the engine's status and headers
\* were written to the client.
FailedAfterHeaders ==
    /\ stream.upstream = "failed"
    /\ stream.head # <<>>

\* C30: in the streaming passthrough, the engine's status code and response
\* headers are written to the client before any body byte; if an engine
\* transport error occurs after the headers have been written, the client
\* connection is closed and the proxy does not attempt to write a second
\* status line or a replacement body.
C30_HeadersOnceThenBody ==
    /\ stream.wire # <<>> =>
          /\ stream.wire[1].t = "head"
          /\ \A n \in 2..Len(stream.wire) : stream.wire[n].t # "head"
    /\ FailedAfterHeaders =>
          /\ stream.client # "open"
          /\ stream.heads = 1
          /\ \A n \in 1..Len(stream.wire) : stream.wire[n].t # "text"

\* The transport failed after the engine's 200 and a chunk were copied to
\* the client of a task-logs request: res.writeHead was called a second
\* time and the process ended.
C30_Witness ==
    /\ Handler = "taskLogs"
    /\ FailedAfterHeaders
    /\ Len(stream.wire) = 2
    /\ stream.heads = 2
    /\ req.proxy \in down

----------------------------------------------------------------------------
(* C26 *)

\* The places of the mounts of type volume or cluster whose Source does not
\* exist on the engine.
NewVolumeMounts(body) ==
    {i \in 1..Len(MountsOf(body)) :
        /\ MountsOf(body)[i].Type \in {"volume", "cluster"}
        /\ ~Exists("volume", MountsOf(body)[i].Source)}

\* The answered service request passes every check the validation lists,
\* and the permission probe.
PassesListedChecks ==
    /\ ~ServiceRefused(req.proxy, Handler, req.body)
    /\ Handler = "serviceUpdate" => JudgedOwned(req.proxy, "service", Id(req))
    /\ req.probe = "200"

\* The mounts of the spec an engine request carries.
SentMounts(c) == c.body.TaskTemplate[1].ContainerSpec[1].Mounts

\* C26: a service create or update whose task template contains a mount of
\* type volume or cluster whose Source does not exist on the engine passes
\* mount validation, and the mount that reaches the engine has the tenant
\* label value under the tenant label key in VolumeOptions.Labels, for every
\* shape of the client's mount: with or without a VolumeOptions object,
\* with or without VolumeOptions.Labels.
C26_NewVolumeMountStamped ==
    (Done /\ Handler \in ServiceHandlers /\ NewVolumeMounts(req.body) # {}
          /\ PassesListedChecks) =>
        /\ Places(calls, {"create", "update"}) # {}
        /\ \A k \in Places(calls, {"create", "update"}) :
              \A i \in NewVolumeMounts(req.body) :
                  /\ SentMounts(calls[k])[i].VolumeOptions # <<>>
                  /\ CarriesTenant(req.proxy, SentMounts(calls[k])[i].VolumeOptions[1].Labels)

\* A service create with a mount of the new volume "ba" that has no
\* VolumeOptions object was answered 500 and nothing was created.
C26_Witness ==
    /\ Done
    /\ Handler = "serviceCreate"
    /\ req.body = MountService(AB, Mount("volume", BA, <<>>))
    /\ NewVolumeMounts(req.body) = {1}
    /\ PassesListedChecks
    /\ resp.status = 500
    /\ NothingWritten

----------------------------------------------------------------------------
(* C27 *)

\* The status the claim gives a volume create that it lists as rejected, 0
\* for one it does not list.
ListedRejection(p, body) ==
    IF ~NameAdmitted(p, body.Name) THEN 400
    ELSE IF body.Driver \in {Missing, <<>>} THEN 400
    ELSE IF body.Driver \notin cfg[p].ALLOWED_REGULAR_VOLUME_DRIVERS THEN 400
    ELSE IF \E i \in 1..Len(VolumeSecrets(body)) :
                ~OwnedRef(p, "secret", VolumeSecrets(body)[i]) THEN 403
    ELSE 0

\* C27: a volume create is rejected exactly when the Name is missing or not
\* prefixed (400), the Driver is missing (400), the Driver is not in the
\* allowed set (400), or a cluster-volume spec's AccessMode.Secrets names a
\* secret that is not owned (403).  Every other volume create, one without
\* a cluster-volume spec included, is forwarded to the engine with the
\* tenant label stamped and answered 201 when the engine succeeds.
C27_VolumeCreateRejectedExactly ==
    (Done /\ Handler = "volumeCreate") =>
        IF ListedRejection(req.proxy, req.body) # 0
        THEN /\ resp.status = ListedRejection(req.proxy, req.body)
             /\ Places(calls, {"create"}) = {}
        ELSE /\ Places(calls, {"create"}) # {}
             /\ \A k \in Places(calls, {"create"}) :
                   /\ CarriesTenant(req.proxy, calls[k].body.Labels)
                   /\ calls[k].res = "ok" => resp.status = 201

\* A volume create with a prefixed name and the driver local, without a
\* cluster-volume spec, was answered 500 and did not reach the engine.
C27_Witness ==
    /\ Done
    /\ Handler = "volumeCreate"
    /\ req.body = VolumeSpec(AB, NoLabels, W("local"), <<>>)
    /\ ListedRejection(req.proxy, req.body) = 0
    /\ resp.status = 500
    /\ calls = <<>>

----------------------------------------------------------------------------
(* C28 *)

\* The fixed set of mount types the claim names.
KnownTypes == {"bind", "volume", "tmpfs", "npipe", "cluster"}

\* The places of the mounts whose type is outside the known set.
UnknownMounts(body) ==
    {i \in 1..Len(MountsOf(body)) : MountsOf(body)[i].Type \notin KnownTypes}

\* The loop over the mounts of the answered request gets to mount i: the
\* checks before the mounts pass, and so does every mount before it.
ReachesMount(i) ==
    /\ ReachesTemplate
    /\ RefsAdmitted(req.proxy, req.body)
    /\ \A j \in 1..(i - 1) : MountAdmitted(req.proxy, MountsOf(req.body)[j])

NotSupported(type) == Resp(400, Text(<<"Mount type ", type, " is not supported.">>))

NotAllowed(type) == Resp(400, Text(<<"Mount type ", type, " is not allowed.">>))

\* C28: for each mount of a task template the type is first checked against
\* the fixed known set {bind, volume, tmpfs, npipe, cluster}, 400 'not
\* supported' on a miss, and only then against the configured allowed set,
\* 400 'not allowed' on a miss; so a type outside the known set is rejected
\* even when ALLOWED_VOLUME_TYPES lists it, and no service create or update
\* that contains such a mount reaches the engine.
C28_KnownBeforeAllowed ==
    (Done /\ Handler \in ServiceHandlers) =>
        /\ \A i \in 1..Len(MountsOf(req.body)) :
              ReachesMount(i) =>
                  LET type == MountsOf(req.body)[i].Type
                  IN  /\ type \notin KnownTypes => resp = NotSupported(type)
                      /\ (type \in KnownTypes
                          /\ type \notin cfg[req.proxy].ALLOWED_VOLUME_TYPES)
                             => resp = NotAllowed(type)
        /\ UnknownMounts(req.body) # {} => NothingWritten

\* With ALLOWED_VOLUME_TYPES = "volume,image", a service create with a
\* mount of type image was answered 400 'not supported' and did not reach
\* the engine.
C28_Witness ==
    /\ Done
    /\ Handler = "serviceCreate"
    /\ "image" \in cfg[req.proxy].ALLOWED_VOLUME_TYPES
    /\ UnknownMounts(req.body) = {1}
    /\ MountsOf(req.body)[1].Type = "image"
    /\ ReachesMount(1)
    /\ resp = NotSupported("image")
    /\ calls = <<>>

----------------------------------------------------------------------------
(* C29 *)

\* The engine answered an inspect of one of the kinds with an error: it
\* failed or found nothing.
InspectFailed(kinds) ==
    \E i \in 1..Len(calls) :
        calls[i].op = "inspect" /\ calls[i].kind \in kinds /\ calls[i].res = "error"

\* The handlers that ask the oracle about the resource their path names.
TargetHandlers ==
    UpdateAndDeleteHandlers @@ InspectHandlers @@ [serviceLogs |-> "service"]

TaskHandlers == {"taskInspect", "taskLogs"}

\* The tasks the engine lists whose service the inspect of the oracle fails
\* on or does not find.
FailedTasks ==
    {engine.task[i] : i \in {j \in 1..Len(engine.task) :
                                \/ Fails("service")
                                \/ ~Exists("service", engine.task[j].ServiceID)}}

\* The answer is a refusal and the engine was only asked, to inspect.
RefusedAsNotOwned(statuses) ==
    /\ resp.status \in statuses
    /\ resp.body.type = "text"
    /\ \A i \in 1..Len(calls) : calls[i].op = "inspect"

----------------------------------------------------------------------------
(* C31 *)

\* One request for the service or secret its path names, from its arrival
\* to its answer: the unprimed engine is the engine at the time of the
\* request.  The request is refused exactly if the resource does not carry
\* the tenant label value on that engine, and the oracle inspected it
\* during the request.  (The requests of SpecRelabel pass every check
\* other than the one of the owner.)
C31Step ==
    (/\ pc = "idle"
     /\ pc' = "done"
     /\ HandlerOf(req'.method, req'.path) \in DOMAIN TargetHandlers)
    => LET p == req'.proxy
           kind == TargetHandlers[HandlerOf(req'.method, req'.path)]
           X == ParamId(req'.method, req'.path)
       IN  /\ resp'.status \in {403, 404}
                <=> ~(Exists(kind, X) /\ CarriesTenant(p, engine[kind][X].Labels))
           /\ calls' # <<>>
           /\ calls'[1] = Call("inspect", kind, X, NoHeaders, <<>>,
                               IF Exists(kind, X) THEN "ok" ELSE "error")

\* C31: the proxy keeps no per-resource state between requests: every
\* ownership decision is computed from an engine inspect performed during
\* the request that needs it, so when the labels of a resource change on
\* the engine between two requests the decision of the second follows the
\* new labels; and no step writes the process-level configuration.
C31_DecisionsFollowTheEngine == [][C31Step /\ cfg' = cfg]_vars

\* The proxy created the service "ab", another user of the engine then gave
\* it the label of tenant "b", and the proxy's delete of it was refused.
C31_Witness ==
    /\ Done
    /\ served = 2
    /\ Handler = "serviceDelete"
    /\ Id(req) = AB
    /\ <<"service", AB>> \in DOMAIN origin
    /\ origin[<<"service", AB>>] = req.proxy
    /\ Exists("service", AB)
    /\ engine.service[AB].Labels[tenantLabel] = B
    /\ resp.status = 403

----------------------------------------------------------------------------
(* C32 *)

\* The image a permission probe asks the engine about.
ProbedImage(c) == c.id[2]

\* C32: the permission probe sent to the engine carries an x-registry-auth
\* header if and only if the store holds credentials for the registry of
\* the image and those credentials are not marked anonymous; for an absent
\* entry and for an anonymous entry the probe carries no auth header.
C32_ProbeAuthIffStoredNonAnonymous ==
    Done =>
        \A i \in Places(calls, {"probe"}) :
            "x-registry-auth" \in DOMAIN calls[i].headers
                <=> HasStoredCredentials(req.proxy, ProbedImage(calls[i]))

\* A service create with an image of the registry "anon", whose stored
\* entry is marked anonymous: the probe went out with an x-registry-auth
\* header.
C32_Witness ==
    /\ Done
    /\ Handler = "serviceCreate"
    /\ ImageOf(req.body) = <<"anon", "app">>
    /\ cfg[req.proxy].registryAuthOverrides["anon"].anonymous
    /\ \E i \in Places(calls, {"probe"}) :
          /\ ProbedImage(calls[i]) = <<"anon", "app">>
          /\ "x-registry-auth" \in DOMAIN calls[i].headers

----------------------------------------------------------------------------
(* C33 *)

\* The registry credentials the proxy holds for an image: the stored entry
\* of its registry as an x-registry-auth value, or none when there is no
\* entry or the entry is marked anonymous.
StoredCredentialsFor(p, image) ==
    IF HasStoredCredentials(p, image)
    THEN [h \in {"x-registry-auth"} |->
             AuthHeader(cfg[p].registryAuthOverrides[RegistryOf(image)])]
    ELSE NoHeaders

\* C33: for a service create or update whose probe succeeded, the engine
\* create/update call carries the stored credentials of the image's
\* registry when such credentials exist and are not anonymous, and no
\* registry credentials otherwise; whatever X-Registry-Auth the client
\* sent, the credentials passed to the engine are the same.
C33_WriteCarriesStoredCredentialsOnly ==
    (Done /\ Handler \in ServiceHandlers) =>
        \A i \in Places(calls, {"create", "update"}) :
            /\ req.probe = "200"
            /\ calls[i].headers = StoredCredentialsFor(req.proxy, ImageOf(req.body))

\* A client that sent its own X-Registry-Auth created a service with an
\* image of the registry "reg": the create carried the stored credentials
\* of "reg".
C33_Witness ==
    /\ Done
    /\ Handler = "serviceCreate"
    /\ req.headers = HeadersClient
    /\ ImageOf(req.body) = <<"reg", "app">>
    /\ \E i \in Places(calls, {"create"}) :
          /\ calls[i].headers["x-registry-auth"] = AuthHeader(StoredAuth["reg"])
          /\ calls[i].headers["x-registry-auth"] # ClientAuth

----------------------------------------------------------------------------
(* C34 *)

\* The answered request is an update of a service the tenant owns whose
\* body has no TaskTemplate, the rollback case, and no EndpointSpec that
\* could be refused.
RollbackUpdate ==
    /\ Done
    /\ Handler = "serviceUpdate"
    /\ JudgedOwned(req.proxy, "service", Id(req))
    /\ req.body.TaskTemplate = <<>>
    /\ req.body.EndpointSpec = <<>>

\* C34: a service update on an owned service whose body has no
\* TaskTemplate skips the validation of the task template and is forwarded
\* to the engine's update with the version and rollback query values of
\* the client; it is not answered with an error the proxy itself made.
C34_RollbackUpdateForwarded ==
    RollbackUpdate =>
        /\ \E i \in Places(calls, {"update"}) :
              /\ calls[i].kind = "service"
              /\ calls[i].id = Id(req)
              /\ calls[i].body.version = req.query.version
              /\ calls[i].body.rollback = req.query.rollback
        /\ resp.status = 200

\* POST /services/a/update?version=7&rollback=previous without a
\* TaskTemplate, on the tenant's own service: answered 500 after the
\* inspect of the oracle, and no update was sent to the engine.
C34_Witness ==
    /\ RollbackUpdate
    /\ Id(req) = A
    /\ req.query = [version |-> W("7"), rollback |-> W("previous")]
    /\ calls = <<InspectCall("service", A)>>
    /\ resp.status = 500

----------------------------------------------------------------------------
(* C35 *)

ContainerSpecRequired == Resp(400, Text(<<"ContainerSpec is required in TaskTemplate.">>))

\* The answered request is a create, with an admitted name, of a service
\* whose task template declares the runtime plugin or attachment, has no
\* ContainerSpec, and fails no other check of the validation.
PluginCreate ==
    /\ Done
    /\ Handler = "serviceCreate"
    /\ NameAdmitted(req.proxy, req.body.Name)
    /\ req.body.TaskTemplate # <<>>
    /\ req.body.TaskTemplate[1].Runtime \in {"plugin", "attachment"}
    /\ req.body.TaskTemplate[1].ContainerSpec = <<>>
    /\ RefsAdmitted(req.proxy, req.body)
    /\ ~DeclaresPorts(req.body)

\* C35: a service create whose task template declares Runtime 'plugin' or
\* 'attachment' and has no ContainerSpec is not rejected for the missing
\* ContainerSpec: it passes validation, gets the top-level tenant label
\* stamped, and reaches the engine's create; the 400 'ContainerSpec is
\* required' answer is produced only when the runtime is neither plugin nor
\* attachment.
C35_PluginCreateReachesEngine ==
    /\ PluginCreate =>
          /\ resp # ContainerSpecRequired
          /\ \E i \in Places(calls, {"create"}) :
                /\ calls[i].kind = "service"
                /\ CarriesTenant(req.proxy, calls[i].body.Labels)
    /\ (Done /\ Handler \in ServiceHandlers /\ resp = ContainerSpecRequired) =>
          \/ req.body.TaskTemplate = <<>>
          \/ req.body.TaskTemplate[1].Runtime \notin {"plugin", "attachment"}

\* A create of the service "ab" with Runtime 'plugin' and no ContainerSpec
\* was answered 500 and nothing was sent to the engine.
C35_Witness ==
    /\ PluginCreate
    /\ req.body.Name = AB
    /\ req.body.TaskTemplate[1].Runtime = "plugin"
    /\ resp.status = 500
    /\ calls = <<>>

----------------------------------------------------------------------------
(* C36 *)

\* The request that ended has exactly one response: the handler wrote it,
\* or the proxied exchange wrote one head and ended the client's response.
RespondedOnce ==
    /\ resp # NoResponse
    /\ stream # NoStream => stream.heads = 1 /\ stream.client = "ended"

\* C36: every request routed to a handler eventually receives exactly one
\* response: no path writes a status twice for one request, and no path,
\* the permission probe whose engine response ends abnormally and the
\* passthrough whose engine request errors included, leaves the request
\* without a response, given that the engine eventually answers or fails
\* each call.
C36_ExactlyOneResponse ==
    /\ [](stream.heads <= 1)
    /\ [](Done => RespondedOnce)
    /\ (pc = "streaming" ~> pc = "done")

\* A service create whose probe the engine answered with a status other
\* than 200 and a body that is not JSON: the proxy's process ended and the
\* request has no response.
C36_Witness ==
    /\ Done
    /\ Handler = "serviceCreate"
    /\ req.probe = "garbled"
    /\ \E i \in Places(calls, {"probe"}) : calls[i].res = "garbled"
    /\ resp = NoResponse
    /\ req.proxy \in down

----------------------------------------------------------------------------
(* C37 *)

\* The identifiers the secret (config) references of a service body carry:
\* the SecretName and the SecretID (the ConfigName and the ConfigID) of
\* each.
IdentifiersOf(body, kind) ==
    LET cs == ContainerSpecOf(body.TaskTemplate)
        names == ListOf(cs, IF kind = "secret" THEN "Secrets" ELSE "Configs")
        ids == ListOf(cs, IF kind = "secret" THEN "SecretIDs" ELSE "ConfigIDs")
    IN  {names[i] : i \in 1..Len(names)} \cup {ids[i] : i \in 1..Len(ids)}

\* The body has a reference whose name is owned and whose ID is not.
SplitReference(p, body) ==
    LET cs == ContainerSpecOf(body.TaskTemplate)
    IN  \/ \E i \in 1..Len(ListOf(cs, "Secrets")) :
              /\ OwnedRef(p, "secret", ListOf(cs, "Secrets")[i])
              /\ ~OwnedRef(p, "secret", ListOf(cs, "SecretIDs")[i])
        \/ \E i \in 1..Len(ListOf(cs, "Configs")) :
              /\ OwnedRef(p, "config", ListOf(cs, "Configs")[i])
              /\ ~OwnedRef(p, "config", ListOf(cs, "ConfigIDs")[i])

\* C37: for every service create/update admitted to the engine, every
\* secret and config the spec refers to is owned under every identifier the
\* reference carries: a reference whose SecretName (ConfigName) names an
\* owned secret (config) but whose SecretID (ConfigID) names one that is
\* not owned is rejected with 403 and does not reach the engine.
C37_ReferencesOwnedUnderEveryIdentifier ==
    (Done /\ Handler \in ServiceHandlers) =>
        /\ \A i \in Places(calls, {"create", "update"}) :
              \A kind \in {"secret", "config"} :
                 \A x \in IdentifiersOf(calls[i].body, kind) :
                    OwnedRef(req.proxy, kind, x)
        /\ (SplitReference(req.proxy, req.body) /\ ReachesRefs) =>
              resp.status = 403 /\ NothingWritten

\* A create of the service "ab" whose secret reference has the SecretName
\* of the tenant's own secret "a" and the SecretID of the secret "b" of
\* another tenant reached the engine and was answered with success.
C37_Witness ==
    /\ Done
    /\ Handler = "serviceCreate"
    /\ req.body = WithSecretID(RefService(AB, A, A, A), B)
    /\ OwnedRef(req.proxy, "secret", A)
    /\ Exists("secret", B)
    /\ ~CarriesTenant(req.proxy, engine.secret[B].Labels)
    /\ resp.status \in {200, 201}
    /\ \E i \in Places(calls, {"create"}) :
          ListOf(ContainerSpecOf(calls[i].body.TaskTemplate), "SecretIDs") = <<B>>

----------------------------------------------------------------------------
(* C38 *)

\* The resource kind/id is there on the engine e and carries the tenant
\* label value of p.
OwnedOn(e, p, kind, id) ==
    /\ id \in DOMAIN e[kind]
    /\ CarriesTenant(p, e[kind][id].Labels)

\* The engine accepted the write of the answered request.
TookEffect ==
    /\ Done
    /\ gap.at # <<>>
    /\ calls # <<>>
    /\ calls[Len(calls)].op \in WriteOps
    /\ calls[Len(calls)].res = "ok"

\* On the engine e, the target of the last call is owned if the call is a
\* delete or an update, and every network, secret and config a service
\* create or update refers to is owned, or allow-listed for a network.
TargetAndReferencesOwnedOn(e) ==
    LET c == calls[Len(calls)]
        p == req.proxy
    IN  /\ c.op \in {"remove", "update"} => OwnedOn(e, p, c.kind, c.id)
        /\ (c.kind = "service" /\ c.op \in {"create", "update"}) =>
              \A x \in ReferencesOf(c.body) :
                 \/ OwnedOn(e, p, x[1], x[2])
                 \/ AllowListedFor(p, x[1], x[2])

----------------------------------------------------------------------------
(* C39 *)

\* The resource the handler h is asked for under id is not there; for a
\* task handler, the task is not there.
TargetAbsent(h, id) ==
    IF h \in TaskHandlers
    THEN \A i \in 1..Len(engine.task) : engine.task[i].ID # id
    ELSE ~Exists(TargetHandlers[h], id)

\* The resource is there without the tenant label value of the proxy p;
\* for a task handler, the task is there and its service is not there or is
\* such a resource.
HeldByAnother(p, h, id) ==
    IF h \in TaskHandlers
    THEN \E i \in 1..Len(engine.task) :
            /\ engine.task[i].ID = id
            /\ ~OwnedRef(p, "service", engine.task[i].ServiceID)
    ELSE /\ Exists(TargetHandlers[h], id)
         /\ ~CarriesTenant(p, engine[TargetHandlers[h]][id].Labels)

\* The handlers of the inspect, update, delete and logs requests.
ResourceHandlers == (DOMAIN TargetHandlers) \cup TaskHandlers

\* The answer of each handler to a request for a resource that is not
\* owned: a status and a text that the handler fixes.
NotOwnedAnswer(h) ==
    CASE h \in {"serviceDelete", "serviceLogs", "taskLogs"} ->
             Resp(403, Text(<<"Access Denied: Service not owned">>))
      [] h = "taskInspect" ->
             Resp(403, Text(<<"Access denied: Task does not belong to an owned service.">>))
      [] h \in {"secretInspect", "configInspect"} ->
             Resp(404, Text(NotOwnedText(TargetHandlers[h])))
      [] OTHER -> Resp(403, Text(NotOwnedText(TargetHandlers[h])))

\* The inspect of a network on the allow-list of the proxy.
AllowListedRead(p, h, id) == h = "networkInspect" /\ AllowListedFor(p, "network", id)

\* One inspect, update, delete or logs request, from its arrival to its
\* answer: the unprimed engine is the engine at the time of the request.
\* A request for a resource that is not there and a request for one of
\* another tenant get the same answer, the one the handler fixes, whatever
\* the body.
C39StepAsStated ==
    (/\ pc = "idle"
     /\ pc' = "done"
     /\ Handler' \in ResourceHandlers
     /\ \/ TargetAbsent(Handler', Id(req'))
        \/ HeldByAnother(req'.proxy, Handler', Id(req')))
    => resp' = NotOwnedAnswer(Handler')

\* The statement as it was made, with no request excepted.
C39_AsStated == [][C39StepAsStated]_vars

\* The same with the inspect of an allow-listed network set apart, and
\* with what the engine is asked for.
C39Step ==
    (/\ pc = "idle"
     /\ pc' = "done"
     /\ Handler' \in ResourceHandlers)
    => LET h == Handler'
           p == req'.proxy
           id == Id(req')
       IN  /\ (/\ TargetAbsent(h, id) \/ HeldByAnother(p, h, id)
               /\ ~AllowListedRead(p, h, id))
              => /\ resp' = NotOwnedAnswer(h)
                 /\ \A i \in 1..Len(calls') : calls'[i].op = "inspect"
                 /\ engine' = engine
           /\ AllowListedRead(p, h, id)
              => IF TargetAbsent(h, id) THEN resp' = NotOwnedAnswer(h)
                 ELSE resp'.status = 200

\* C39: the answer to an inspect, update, delete or logs request does not
\* tell whether a resource that is not owned exists: whether the resource
\* is not there or is there and owned by another tenant, the answer is the
\* status and body its handler fixes for "not owned", whatever the body of
\* an update, and the engine was asked for nothing but inspects.  The
\* inspect of a network on the allow-list of the proxy is excepted: it gets
\* that answer when the network is not there and the network when it is.
C39_ExistenceNotRevealed == [][C39Step]_vars

\* The update of the service "b" of tenant "b" through the proxy of tenant
\* "a" got the answer that an update of a service that is not there gets,
\* with a body that would not pass the checks of an owned service.
C39_Witness ==
    /\ Done
    /\ Handler = "serviceUpdate"
    /\ req.proxy = 1
    /\ Id(req) = B
    /\ HeldByAnother(1, "serviceUpdate", B)
    /\ req.body = RefService(B, B, B, B)
    /\ resp = NotOwnedAnswer("serviceUpdate")

----------------------------------------------------------------------------
(* C40 *)

\* The connections the server has accepted and that have not closed yet.
OpenConnections == (0..(www.nextSocketId - 1)) \ www.closed

\* The timeout that fires is the last of its countdown.
CountdownAtZero ==
    /\ www.timers # <<>>
    /\ www'.timers = Tail(www.timers)
    /\ Head(www.timers).counter = 0

\* C40: in the server launcher, the sockets registry contains exactly the
\* connections that have been accepted and not yet closed; after SIGINT or
\* SIGTERM the server accepts no new connection; the countdown reaches
\* zero with its tenth timeout, and every connection still open then is
\* destroyed; and once a signal has arrived the process eventually exits,
\* however many connections were open or idle at the time of the signal.
C40_GracefulShutdown ==
    /\ [](www.sockets = OpenConnections)
    /\ [][www.signals # <<>> => www'.nextSocketId = www.nextSocketId]_vars
    /\ [][CountdownAtZero => /\ Head(www.timers).step = Countdown
                             /\ OpenConnections \subseteq www'.destroyed]_vars
    /\ [][(www'.destroyed # www.destroyed /\ www'.signals = www.signals)
             => CountdownAtZero]_vars
    /\ (www.signals # <<>> ~> www.exited)

\* The process has exited after a signal that found three connections
\* open, none of which its client closed: all were destroyed.
C40_Witness ==
    /\ www.exited
    /\ www.exitCode = 0
    /\ www.nextSocketId = MaxSockets
    /\ www.destroyed = 0..(MaxSockets - 1)
    /\ www.closed = www.destroyed
    /\ www.sockets = {}
    /\ Len(www.signals) = 1
    /\ www.timers = <<>>

====
